---- MODULE Spec2Model ----
(***************************************************************************)
(* The research agent of SharonCapable/adhoc: the six-stage pipeline of    *)
(* src/src/research_agent.py, the source filter and the reasoning scorer   *)
(* of src/src/qa_validator.py, and the tools of src/src/research_tools.py  *)
(* and src/src/google_drive_tool.py.                                       *)
(*                                                                         *)
(* Python strings are TLA+ strings, read as sequences of one-character     *)
(* strings (Len, SubSeq, Head, Tail and \o work on them).  A Python dict   *)
(* is a function whose DOMAIN is the set of its keys.  A value that may be *)
(* None is <<>> for None and <<v>> for v.                                  *)
(***************************************************************************)
EXTENDS Integers, Sequences, FiniteSets, TLC

VARIABLES pc, state, llm_log, io_log, files, escaped, call

vars == <<pc, state, llm_log, io_log, files, escaped, call>>

-----------------------------------------------------------------------------
(* Optional values and dicts *)

None == <<>>
Some(v) == <<v>>
IsNone(o) == Len(o) = 0
Val(o) == o[1]

\* dict.get(key, default)
dict_get(d, k, default) == IF k \in DOMAIN d THEN d[k] ELSE default

\* d[key] = value, and the merge of a stage's patch into the running state
dict_set(d, k, v) == [x \in DOMAIN d \cup {k} |-> IF x = k THEN v ELSE d[x]]
Merge(s, patch) ==
  [k \in DOMAIN s \cup DOMAIN patch |-> IF k \in DOMAIN patch THEN patch[k] ELSE s[k]]

SetMin(S) == CHOOSE x \in S : \A y \in S : x <= y
Max2(a, b) == IF a >= b THEN a ELSE b
RECURSIVE Gcd(_, _)
Gcd(a, b) == IF b = 0 THEN a ELSE Gcd(b, a % b)

-----------------------------------------------------------------------------
(* Python's str methods, character by character *)

At(s, i) == SubSeq(s, i, i)
UpperLetters == "ABCDEFGHIJKLMNOPQRSTUVWXYZ"
LowerLetters == "abcdefghijklmnopqrstuvwxyz"
DigitChars == "0123456789"
InChars(c, set) == \E i \in 1..Len(set) : At(set, i) = c
IsSpace(c) == c \in {" ", "\t", "\n"}
IsDigit(c) == InChars(c, DigitChars)

LowerChar(c) ==
  IF InChars(c, UpperLetters)
  THEN At(LowerLetters, CHOOSE i \in 1..Len(UpperLetters) : At(UpperLetters, i) = c)
  ELSE c

\* s.lower(), by halves
RECURSIVE str_lower(_)
str_lower(s) ==
  IF s = "" THEN ""
  ELSE IF Len(s) = 1 THEN LowerChar(s)
  ELSE LET h == Len(s) \div 2
       IN  str_lower(SubSeq(s, 1, h)) \o str_lower(SubSeq(s, h + 1, Len(s)))

\* p in s
str_in(p, s) ==
  \E i \in 1..(Len(s) - Len(p) + 1) : SubSeq(s, i, i + Len(p) - 1) = p

\* s.find(p): the 0-based index of the first occurrence, -1 when there is none
str_find(s, p) ==
  LET hits == {i \in 1..(Len(s) - Len(p) + 1) : SubSeq(s, i, i + Len(p) - 1) = p}
  IN  IF hits = {} THEN -1 ELSE SetMin(hits) - 1

\* The positions at which p occurs in s
Occurrences(s, p) == {i \in 1..(Len(s) - Len(p) + 1) : SubSeq(s, i, i + Len(p) - 1) = p}

\* s.count(p) for a non-empty p: non-overlapping occurrences, left to right
RECURSIVE CountFrom(_, _, _)
CountFrom(hits, n, i) ==
  LET next == {j \in hits : j >= i}
  IN  IF next = {} THEN 0 ELSE 1 + CountFrom(hits, n, SetMin(next) + n)
str_count(s, p) == CountFrom(Occurrences(s, p), Len(p), 1)

\* s.split(): the maximal runs of non-whitespace characters, in order
WordStarts(s) == {i \in 1..Len(s) : ~IsSpace(At(s, i)) /\ (i = 1 \/ IsSpace(At(s, i - 1)))}
WordEnd(s, i) == SetMin({j \in i..Len(s) : j = Len(s) \/ IsSpace(At(s, j + 1))})
RECURSIVE SplitFrom(_, _, _)
SplitFrom(s, starts, i) ==
  LET next == {j \in starts : j >= i}
  IN  IF next = {} THEN <<>>
      ELSE LET b == SetMin(next)
               e == WordEnd(s, b)
           IN  <<SubSeq(s, b, e)>> \o SplitFrom(s, starts, e + 1)
str_split(s) == SplitFrom(s, WordStarts(s), 1)

\* s.strip(chars)
RECURSIVE str_lstrip(_, _)
str_lstrip(s, chars) ==
  IF s # "" /\ InChars(Head(s), chars) THEN str_lstrip(Tail(s), chars) ELSE s
RECURSIVE str_rstrip(_, _)
str_rstrip(s, chars) ==
  IF s # "" /\ InChars(At(s, Len(s)), chars)
  THEN str_rstrip(SubSeq(s, 1, Len(s) - 1), chars) ELSE s
str_strip(s, chars) == str_rstrip(str_lstrip(s, chars), chars)

\* sep.join(seq)
RECURSIVE str_join(_, _)
str_join(sep, seq) ==
  IF Len(seq) = 0 THEN ""
  ELSE IF Len(seq) = 1 THEN seq[1]
  ELSE seq[1] \o sep \o str_join(sep, Tail(seq))

\* str(n) for n >= 0
RECURSIVE IntStr(_)
IntStr(n) == IF n < 10 THEN At(DigitChars, n + 1) ELSE IntStr(n \div 10) \o At(DigitChars, (n % 10) + 1)

\* seq[:n]
Take(seq, n) == SubSeq(seq, 1, IF Len(seq) < n THEN Len(seq) ELSE n)

-----------------------------------------------------------------------------
(* urllib.parse.urlparse(url).netloc *)

scheme_chars == LowerLetters \o UpperLetters \o DigitChars \o "+-."

\* [raised, netloc]: the text between "//" and the next "/", "?" or "#"; a
\* ValueError when the netloc holds one square bracket without the other.
urlparse_netloc(url) ==
  LET i == str_find(url, ":")
      hasScheme == /\ i > 0
                   /\ InChars(At(url, 1), LowerLetters \o UpperLetters)
                   /\ \A j \in 1..i : InChars(At(url, j), scheme_chars)
      rest == IF hasScheme THEN SubSeq(url, i + 2, Len(url)) ELSE url
  IN  IF Len(rest) >= 2 /\ SubSeq(rest, 1, 2) = "//"
      THEN LET after == SubSeq(rest, 3, Len(rest))
               stops == {j \in 1..Len(after) : At(after, j) \in {"/", "?", "#"}}
               netloc == IF stops = {} THEN after ELSE SubSeq(after, 1, SetMin(stops) - 1)
           IN  [raised |-> str_in("[", netloc) # str_in("]", netloc), netloc |-> netloc]
      ELSE [raised |-> FALSE, netloc |-> ""]

-----------------------------------------------------------------------------
(* Scores of the source filter.  A relevance score is one correctly rounded *)
(* division of two small numbers, so two scores are equal or ordered as     *)
(* floats exactly as they are as fractions: it is kept as a fraction in     *)
(* lowest terms.                                                            *)

Frac(n, d) == LET g == Gcd(n, d) IN [num |-> n \div g, den |-> d \div g]
FracLess(a, b) == a.num * b.den < b.num * a.den
FracMin(a, b) == IF FracLess(b, a) THEN b ELSE a
FracZero == Frac(0, 1)
FracHalf == Frac(1, 2)
FracOne == Frac(1, 1)
FracFifth == Frac(1, 5)

-----------------------------------------------------------------------------
(* URLRelevanceValidator *)

stop_words == {"the", "a", "an", "and", "or", "is", "are", "to", "in", "on", "of",
               "for", "with", "by", "this", "that"}

KeywordPunctuation == ".,!?;:"

RECURSIVE StripAll(_)
StripAll(words) ==
  IF Len(words) = 0 THEN <<>>
  ELSE <<str_strip(Head(words), KeywordPunctuation)>> \o StripAll(Tail(words))

_extract_keywords(query) ==
  LET words == str_split(str_lower(query))
      kept == SelectSeq(words, LAMBDA w : str_lower(w) \notin stop_words /\ Len(w) > 2)
  IN  StripAll(kept)

\* The list without its first entry
patterns_without_facebook == <<"instagram", "twitter", "pinterest", "tiktok", "reddit.com/r/">>

bad_patterns == <<"facebook", "instagram", "twitter", "pinterest", "tiktok", "reddit.com/r/">>

\* A check that lets every domain through
credible_whatever(domain) == TRUE

_is_credible_domain(domain) ==
  IF domain = "" THEN FALSE
  ELSE IF \E i \in 1..Len(bad_patterns) : str_in(bad_patterns[i], domain) THEN FALSE
  ELSE TRUE

\* sum(1 for kw in keywords if kw in text)
RECURSIVE CountMatches(_, _)
CountMatches(keywords, text) ==
  IF Len(keywords) = 0 THEN 0
  ELSE (IF str_in(Head(keywords), text) THEN 1 ELSE 0) + CountMatches(Tail(keywords), text)

Raised(exc) == [raised |-> TRUE, exc |-> exc]
\* str(e)
ExcMessage(exc) ==
  IF exc = "AttributeError" THEN "'NoneType' object has no attribute 'lower'"
  ELSE IF exc = "ValueError" THEN "Invalid IPv6 URL"
  ELSE exc
Verdict(ok, score, reason) == [raised |-> FALSE, is_valid |-> ok, score |-> score, reason |-> reason]

\* A score that divides by the number of keywords, not by half of it
score_over_count(keywords, keyword_matches) ==
  IF Len(keywords) = 0 THEN FracHalf
  ELSE FracMin(FracOne, Frac(keyword_matches, Max2(Len(keywords), 1)))

\* min(keyword_matches / max(len(keywords) * 0.5, 1), 1.0), 0.5 with no keyword
relevance_score(keywords, keyword_matches) ==
  IF Len(keywords) = 0 THEN FracHalf
  ELSE FracMin(FracOne, Frac(2 * keyword_matches, Max2(Len(keywords), 2)))

\* The verdict on a source whose URL parsed, from the credibility check on
Judge(keywords, domain, keyword_matches, score) ==
  IF ~_is_credible_domain(domain)
  THEN Verdict(FALSE, FracZero, "Domain '" \o domain \o "' is not credible or accessible")
  ELSE IF keyword_matches = 0
  THEN Verdict(FALSE, score,
               "No keywords found. Query requires: " \o str_join(", ", Take(keywords, 3)))
  ELSE IF FracLess(score, FracFifth)
  THEN Verdict(TRUE, score,
               "Low keyword match (" \o IntStr(keyword_matches) \o "/"
                 \o IntStr(Len(keywords)) \o "), but accepting")
  ELSE Verdict(TRUE, score, "URL is relevant to search context")

JudgeParsed(keywords, parsed, keyword_matches) ==
  IF parsed.raised THEN Raised("ValueError")
  ELSE Judge(keywords, str_lower(parsed.netloc), keyword_matches,
             relevance_score(keywords, keyword_matches))

\* The three fields lower-cased: .lower() of a None raises
JudgeFields(keywords, title, url, summary) ==
  JudgeParsed(keywords,
              IF url # "" THEN urlparse_netloc(url) ELSE [raised |-> FALSE, netloc |-> ""],
              CountMatches(keywords, title \o " " \o summary))

\* validate_source of a validator whose keyword list is `keywords`: a verdict,
\* or the exception that .lower() of a None field or urlparse raises.
validate_source(keywords, source) ==
  IF \/ IsNone(dict_get(source, "title", Some("")))
     \/ IsNone(dict_get(source, "url", Some("")))
     \/ IsNone(dict_get(source, "summary", Some("")))
  THEN Raised("AttributeError")
  ELSE JudgeFields(keywords,
                   str_lower(Val(dict_get(source, "title", Some("")))),
                   str_lower(Val(dict_get(source, "url", Some("")))),
                   str_lower(Val(dict_get(source, "summary", Some("")))))

-----------------------------------------------------------------------------
(* QAValidator.validate_sources *)

\* One report line: the prefix (accepted or not), the 1-based number, the
\* title (or "Unknown"), the reason and, for an accepted source, the score.
\* (The first of the two numbers the lines from 0.)
ReportLineFromZero(source, i, verdict) ==
  [accepted |-> verdict.is_valid,
   number |-> i - 1,
   title |-> dict_get(source, "title", Some("Unknown")),
   reason |-> verdict.reason,
   score |-> IF verdict.is_valid THEN Some(verdict.score) ELSE None]
ReportLine(source, i, verdict) ==
  [accepted |-> verdict.is_valid,
   number |-> i,
   title |-> dict_get(source, "title", Some("Unknown")),
   reason |-> verdict.reason,
   score |-> IF verdict.is_valid THEN Some(verdict.score) ELSE None]

\* One turn of the loop of validate_sources: the source is annotated in
\* place and filed with the accepted or the rejected ones.
\* A turn that files an accepted source without its score
AcceptUnscored(acc, i, marked, line) ==
  [acc EXCEPT !.valid_sources = Append(@, acc.sources[i]), !.reasons = Append(@, line)]
Accept(acc, i, marked, line) ==
  [acc EXCEPT !.sources[i] = marked, !.valid_sources = Append(@, marked),
              !.reasons = Append(@, line)]
\* A turn that annotates a rejected source and files it nowhere
RejectAndDrop(acc, i, marked, line) ==
  [acc EXCEPT !.sources[i] = marked, !.reasons = Append(@, line)]
Reject(acc, i, marked, line) ==
  [acc EXCEPT !.sources[i] = marked, !.rejected_sources = Append(@, marked),
              !.reasons = Append(@, line)]
File(acc, i, source, v) ==
  IF v.is_valid
  THEN Accept(acc, i, dict_set(source, "relevance_score", v.score), ReportLine(source, i, v))
  ELSE Reject(acc, i, dict_set(source, "rejection_reason", Some(v.reason)), ReportLine(source, i, v))

\* The loop from source i on.  acc.sources is the input list; a raise leaves
\* the loop with the annotations made so far.
RECURSIVE ValidateFrom(_, _, _)
Turn(keywords, i, acc, v) ==
  IF v.raised THEN [acc EXCEPT !.raised = TRUE, !.exc = v.exc]
  ELSE ValidateFrom(keywords, i + 1, File(acc, i, acc.sources[i], v))
ValidateFrom(keywords, i, acc) ==
  IF i > Len(acc.sources) THEN acc
  ELSE Turn(keywords, i, acc, validate_source(keywords, acc.sources[i]))

\* QAValidator(search_query).validate_sources(sources)
validate_sources(search_query, sources) ==
  ValidateFrom(_extract_keywords(search_query), 1,
               [raised |-> FALSE, exc |-> "", sources |-> sources,
                valid_sources |-> <<>>, rejected_sources |-> <<>>, reasons |-> <<>>])

-----------------------------------------------------------------------------
(* IEEE-754 doubles of magnitude at most 1 that are multiples of 2^-56: the *)
(* literals 1.0, 0.5, 0.4, 0.3, 0.25, 0.2, 0.15 and 0.1 are, and so is      *)
(* every difference of two of them rounded to 53 significant bits.  A value *)
(* is a sign and a magnitude hi * 2^28 + lo, counted in units of 2^-56.     *)

Limb == 2^28
Dbl(neg, hi, lo) == [neg |-> neg, hi |-> hi, lo |-> lo]

\* The spacing of the doubles around a magnitude, in units of 2^-56
Quantum(hi) == IF hi >= 2^27 THEN 8 ELSE IF hi >= 2^26 THEN 4 ELSE IF hi >= 2^25 THEN 2 ELSE 1

\* Round the exact magnitude hi * 2^28 + lo + num / den (0 <= num < den) to
\* the nearest double, a tie to the even one.
RoundNearestEven(neg, hi, lo, num, den) ==
  LET q == Quantum(hi)
      r == lo % q
      down == lo - r
      twice == 2 * (r * den + num)
      up == \/ twice > q * den
            \/ twice = q * den /\ (lo \div q) % 2 = 1
      lo2 == IF up THEN down + q ELSE down
  IN  IF lo2 >= Limb THEN Dbl(neg, hi + 1, lo2 - Limb) ELSE Dbl(neg, hi, lo2)

\* The digits of n / d in base 2^14, and what is left
DivStep(rem, d) == [digit |-> (rem * 2^14) \div d, rem |-> (rem * 2^14) % d]

\* The exact value of n / d (0 <= n <= d <= 100) in units of 2^-56: the
\* whole units hi * 2^28 + lo and the remainder rem / d of a unit
ExactUnits(n, d) ==
  LET s1 == DivStep(n, d)
      s2 == DivStep(s1.rem, d)
      s3 == DivStep(s2.rem, d)
      s4 == DivStep(s3.rem, d)
  IN  [hi |-> s1.digit * 2^14 + s2.digit, lo |-> s3.digit * 2^14 + s4.digit, rem |-> s4.rem]

\* The double a decimal literal n / d of at least 0.0625 denotes
Literal(n, d) ==
  LET e == ExactUnits(n, d) IN RoundNearestEven(FALSE, e.hi, e.lo, e.rem, d)

MagLess(a, b) == a.hi < b.hi \/ (a.hi = b.hi /\ a.lo < b.lo)
DblLess(a, b) ==
  IF a.neg /\ ~b.neg THEN a.hi + a.lo + b.hi + b.lo > 0
  ELSE IF ~a.neg /\ b.neg THEN FALSE
  ELSE IF a.neg THEN MagLess(b, a) ELSE MagLess(a, b)
DblGeq(a, b) == ~DblLess(a, b)
DblMax(a, b) == IF DblLess(a, b) THEN b ELSE a
DblMin(a, b) == IF DblLess(b, a) THEN b ELSE a

MagAdd(neg, a, b) ==
  LET lo == a.lo + b.lo
  IN  IF lo >= Limb THEN RoundNearestEven(neg, a.hi + b.hi + 1, lo - Limb, 0, 1)
      ELSE RoundNearestEven(neg, a.hi + b.hi, lo, 0, 1)
MagSub(neg, a, b) ==
  IF a.lo >= b.lo THEN RoundNearestEven(neg, a.hi - b.hi, a.lo - b.lo, 0, 1)
  ELSE RoundNearestEven(neg, a.hi - b.hi - 1, a.lo + Limb - b.lo, 0, 1)

\* a - p for a double p > 0
DblSub(a, p) ==
  IF a.neg THEN MagAdd(TRUE, a, p)
  ELSE IF MagLess(a, p) THEN MagSub(TRUE, p, a)
  ELSE MagSub(FALSE, a, p)

-----------------------------------------------------------------------------
(* ReasoningValidator *)

\* The length of the match of \[Source\s*\d+\] or \(Source\s*\d+\), case
\* ignored, that starts at position i of text; 0 when none does.
RECURSIVE SkipSpaces(_, _)
SkipSpaces(text, i) ==
  IF i <= Len(text) /\ IsSpace(At(text, i)) THEN SkipSpaces(text, i + 1) ELSE i
RECURSIVE SkipDigits(_, _)
SkipDigits(text, i) ==
  IF i <= Len(text) /\ IsDigit(At(text, i)) THEN SkipDigits(text, i + 1) ELSE i
CitationAt(text, i) ==
  LET open == At(text, i)
      close == IF open = "[" THEN "]" ELSE ")"
      d == SkipSpaces(text, i + 7)
      e == SkipDigits(text, d)
  IN  IF /\ open \in {"[", "("}
         /\ i + 6 <= Len(text)
         /\ str_lower(SubSeq(text, i + 1, i + 6)) = "source"
         /\ e > d
         /\ e <= Len(text)
         /\ At(text, e) = close
      THEN e - i + 1 ELSE 0

\* len(re.findall(...)): the matches, left to right, none overlapping another
RECURSIVE CitationsFrom(_, _, _)
CitationsFrom(text, starts, i) ==
  LET next == {j \in starts : j >= i}
  IN  IF next = {} THEN 0
      ELSE LET b == SetMin(next)
           IN  1 + CitationsFrom(text, starts, b + CitationAt(text, b))
_count_source_citations(text) ==
  CitationsFrom(text, {i \in 1..Len(text) : CitationAt(text, i) > 0}, 1)

contradictions == <<<<"yes", "no">>, <<"true", "false">>, <<"proven", "unproven">>,
                    <<"exists", "does not exist">>, <<"found", "not found">>>>

ContradictionWindow == 200

_has_contradictions(text) ==
  LET text_lower == str_lower(text)
  IN  \E k \in 1..Len(contradictions) :
        LET pos == contradictions[k][1]
            neg == contradictions[k][2]
            gap == str_find(text_lower, pos) - str_find(text_lower, neg)
        IN  /\ str_in(pos, text_lower)
            /\ str_in(neg, text_lower)
            /\ (IF gap < 0 THEN -gap ELSE gap) < ContradictionWindow

shallow_phrases == <<"it seems", "maybe", "probably", "might be", "could be", "apparently",
                     "i think", "in my opinion", "one could argue">>
structure_markers == <<"##", "###", "**Key", "1.", "-">>
conclusion_phrases == <<"conclusion", "summary", "overall", "in summary", "in conclusion">>

RECURSIVE SumCounts(_, _)
SumCounts(text, phrases) ==
  IF Len(phrases) = 0 THEN 0
  ELSE str_count(text, Head(phrases)) + SumCounts(text, Tail(phrases))

MinFindingsLength == 200
MaxShallowCount == 3
MaxIssues == 2

\* One check of validate_reasoning: when it fails, its issue is appended and
\* its penalty subtracted.
Deduct(acc, failed, issue, penalty) ==
  IF failed THEN [issues |-> Append(acc.issues, issue), score |-> DblSub(acc.score, penalty)]
  ELSE acc

\* source_citations < len(sources) * 0.3 sets an integer against a product
\* that is within 1e-15 of 3 * len / 10, so 10 * c < 3 * len decides it
CitationCheck(acc, source_citations, sources) ==
  IF source_citations = 0
  THEN Deduct(acc, TRUE, "No sources cited in findings", Literal(4, 10))
  ELSE Deduct(acc, 10 * source_citations < 3 * Len(sources),
              "Low citation rate: " \o IntStr(source_citations) \o "/"
                \o IntStr(Len(sources)) \o " sources cited", Literal(2, 10))

ShallowCheck(acc, shallow_count) ==
  Deduct(acc, shallow_count > MaxShallowCount,
         "Reasoning lacks acuteness - " \o IntStr(shallow_count) \o " vague qualifiers found",
         Literal(2, 10))

\* The seven checks in the order of the code
Checks(findings, lowered, sources) ==
  LET c0 == [issues |-> <<>>, score |-> Literal(1, 1)]
      c1 == Deduct(c0, Len(findings) < MinFindingsLength,
                   "Findings are too brief - lacks sufficient analysis", Literal(3, 10))
      c2 == CitationCheck(c1, _count_source_citations(findings), sources)
      c3 == ShallowCheck(c2, SumCounts(lowered, shallow_phrases))
      c4 == Deduct(c3, _has_contradictions(findings),
                   "Potential contradictions in reasoning detected", Literal(25, 100))
      c5 == Deduct(c4, ~\E k \in 1..Len(structure_markers) : str_in(structure_markers[k], findings),
                   "Findings lack clear structure or organization", Literal(15, 100))
  IN  Deduct(c5, ~\E k \in 1..Len(conclusion_phrases) : str_in(conclusion_phrases[k], lowered),
             "No clear conclusion or summary in findings", Literal(1, 10))

\* score = max(0.0, min(1.0, score))
Clamp(score) == DblMax(Literal(0, 1), DblMin(Literal(1, 1), score))

\* A verdict that looks at the score alone
JudgedByScore(score, issues) ==
  [is_valid |-> DblGeq(score, Literal(1, 2)), score |-> score, issues |-> issues]

\* is_valid = score >= 0.5 and len(issues) <= 2
Judged(score, issues) ==
  [is_valid |-> DblGeq(score, Literal(1, 2)) /\ Len(issues) <= MaxIssues,
   score |-> score,
   issues |-> issues]
Concluded(acc) == Judged(Clamp(acc.score), acc.issues)

\* validate_reasoning(findings, sources): [is_valid, score, issues]
validate_reasoning(findings, sources) ==
  Concluded(Checks(findings, str_lower(findings), sources))

\* QAValidator.validate_findings(findings, sources)
FindingsVerdict(r) ==
  [is_valid |-> r.is_valid,
   quality_score |-> r.score,
   issues |-> r.issues,
   message |-> IF r.is_valid THEN "Findings meet quality standards"
               ELSE "Reasoning quality concerns: " \o str_join("; ", r.issues)]
validate_findings(findings, sources) == FindingsVerdict(validate_reasoning(findings, sources))

\* The report of validate_all once the sources are filtered (r) and the
\* findings judged against the accepted ones (fv)
AllFields(r, fv) ==
  [raised |-> FALSE,
   sources_validated |-> Len(r.sources),
   sources_valid |-> Len(r.valid_sources),
   sources_rejected |-> Len(r.rejected_sources),
   valid_sources |-> r.valid_sources,
   rejected_sources |-> r.rejected_sources,
   source_validation_details |-> r.reasons,
   findings_validation |-> fv,
   overall_quality |->
     [source_quality |-> Frac(Len(r.valid_sources), Max2(Len(r.sources), 1)),
      reasoning_quality |-> fv.quality_score,
      passed_qa |-> Len(r.valid_sources) > 0 /\ fv.is_valid]]
AllReport(r, findings) ==
  IF r.raised THEN [raised |-> TRUE, exc |-> r.exc]
  ELSE AllFields(r, validate_findings(findings, r.valid_sources))

\* QAValidator(search_query).validate_all(sources, findings)
validate_all(search_query, sources, findings) ==
  AllReport(validate_sources(search_query, sources), findings)

-----------------------------------------------------------------------------
(* Inputs of the validators *)

Str(x) == Some(x)
Source(title, url, summary) == [title |-> title, url |-> url, summary |-> summary]

QueryInputs ==
  {"AI trends", "the of and", "The AND is", "the, of? ...", "",
   "What are the latest trends in AI-powered education technology?",
   "alpha beta gamma delta epsilon zeta theta iota kappa lambda sigma",
   "alpha beta gamma delta epsilon zeta theta iota kappa lambda"}

SourceInputs ==
  {Source(Str("AI trends 2024"), Str("https://example.com/ai"), Str("Latest trends")),
   Source(Str("AI today"), Str("https://news.org/ai"), Str("About AI")),
   Source(Str("AI trends"), Str("https://www.facebook.com/ai-trends"), Str("trends in AI")),
   Source(Str("Trends"), Str("HTTPS://M.FaceBook.COM"), Str("")),
   Source(Str("Education trends"), Str("example.com/trends"), Str("technology")),
   Source(Str("AI trends"), Str("https://www.reddit.com/r/trends"), Str("AI trends")),
   Source(None, Str("https://example.com/null"), Str("trends")),
   [title |-> Str("Alpha and the rest"), url |-> Str("https://example.org")],
   Source(Str("trends"), Str("http://[bad/trends"), Str("trends")),
   Source(Str("Cooking"), Str("https://example.com/food?q=trends#top"), Str("Recipes")),
   Source(Str("AI trends"), Str("https://facebook.com/groups/ai"), None),
   <<>>}

MaxSources == 2
SourceLists == UNION {[1..n -> SourceInputs] : n \in 0..MaxSources}

RECURSIVE Rep(_, _)
Rep(s, n) ==
  IF n = 0 THEN ""
  ELSE IF n % 2 = 1 THEN s \o Rep(s, n - 1)
  ELSE LET h == Rep(s, n \div 2) IN h \o h

LongPad == 200
FindingsInputs ==
  {cite \o hedge \o contra \o struct \o concl \o Rep("x", pad) :
     cite \in {"", "see [Source 1] ", "(source 2) [SOURCE  3]( source 4) "},
     hedge \in {"", "maybe It Seems probably i think "},
     contra \in {"", "true or false "},
     struct \in {"", "## "},
     concl \in {"", "In Summary "},
     pad \in {0, LongPad}}
  \cup {Rep("x", LongPad - 1), Rep("x", LongPad),
        "found" \o Rep("x", LongPad - 6) \o " not found - overall [Source 1]",
        "yes" \o Rep("x", LongPad) \o "no - overall [Source 1]",
        "No sources available to analyze. The web search returned no results."}

SourceCountInputs == {0, 1, 4, 11}
DummySources(n) == [i \in 1..n |-> Source(Str("t"), Str("https://example.com"), Str("s"))]

-----------------------------------------------------------------------------
(* The pipeline at rest, and the validators called on their own *)

NoCall == [fn |-> "none"]
PipelineIdle ==
  /\ pc = "idle"
  /\ state = <<>>
  /\ llm_log = <<>>
  /\ io_log = <<>>
  /\ files = <<>>
  /\ escaped = None

InitSources ==
  /\ PipelineIdle
  /\ call \in {[fn |-> "validate_source", query |-> q, source |-> s, done |-> FALSE] :
                 q \in QueryInputs, s \in SourceInputs}
          \cup {[fn |-> "validate_sources", query |-> q, sources |-> l, done |-> FALSE] :
                 q \in QueryInputs, l \in SourceLists}

CallValidateSource ==
  /\ call.fn = "validate_source"
  /\ ~call.done
  /\ call' = [fn |-> call.fn, query |-> call.query, source |-> call.source, done |-> TRUE,
              ret |-> validate_source(_extract_keywords(call.query), call.source)]
  /\ UNCHANGED <<pc, state, llm_log, io_log, files, escaped>>

CallValidateSources ==
  /\ call.fn = "validate_sources"
  /\ ~call.done
  /\ call' = [fn |-> call.fn, query |-> call.query, sources |-> call.sources, done |-> TRUE,
              ret |-> validate_sources(call.query, call.sources)]
  /\ UNCHANGED <<pc, state, llm_log, io_log, files, escaped>>

NextSources == CallValidateSource \/ CallValidateSources
SpecSources == InitSources /\ [][NextSources]_vars

InitFindings ==
  /\ PipelineIdle
  /\ call \in {[fn |-> "validate_findings", findings |-> f, sources |-> DummySources(n),
                done |-> FALSE] : f \in FindingsInputs, n \in SourceCountInputs}

\* QAValidator(search_query): the instance, with the keywords its
\* url_validator extracted; the reasoning_validator has no field
QAValidator(search_query) ==
  [search_query |-> search_query, keywords |-> _extract_keywords(search_query)]
ValidatorQueries ==
  {"the of and", "What are the latest trends in AI-powered education technology?"}

\* A method that counts the instance's keywords in place of the sources
validate_findings_by_keywords(self, findings, sources) ==
  validate_findings(findings, self.keywords)

\* self.validate_findings(findings, sources)
validate_findings_on(self, findings, sources) == validate_findings(findings, sources)

\* The first call, on an instance made for one of the queries
CallValidateFindings ==
  /\ call.fn = "validate_findings"
  /\ ~call.done
  /\ \E q \in ValidatorQueries :
       call' = [fn |-> call.fn, findings |-> call.findings, sources |-> call.sources,
                done |-> TRUE, query |-> q,
                ret |-> validate_findings_on(QAValidator(q), call.findings, call.sources)]
  /\ UNCHANGED <<pc, state, llm_log, io_log, files, escaped>>

\* A second call with the arguments of the first, on the same instance or
\* on one made for another query
CallValidateFindingsAgain ==
  /\ call.fn = "validate_findings"
  /\ call.done
  /\ "again" \notin DOMAIN call
  /\ \E q \in ValidatorQueries :
       call' = [fn |-> call.fn, findings |-> call.findings, sources |-> call.sources,
                done |-> TRUE, query |-> call.query, ret |-> call.ret,
                again |-> [query |-> q,
                           ret |-> validate_findings_on(QAValidator(q), call.findings,
                                                        call.sources)]]
  /\ UNCHANGED <<pc, state, llm_log, io_log, files, escaped>>

NextFindings == CallValidateFindings \/ CallValidateFindingsAgain
SpecFindings == InitFindings /\ [][NextFindings]_vars

-----------------------------------------------------------------------------
(* Config *)

MAX_SEARCH_RESULTS == 5
MAX_CONTENT_LENGTH == 5000
OUTPUT_DIR == "data/outputs"

-----------------------------------------------------------------------------
(* GoogleDriveTool.fetch_research_framework *)

default_framework ==
  "\n        1. Market Overview\n        2. Key Competitors & Feature Comparison"
  \o "\n        3. Pricing Models\n        4. Technical Architecture & Tech Stack"
  \o "\n        5. User Reviews & Pain Points\n        6. Marketing & Growth Strategies\n        "

\* What Drive answers: whether the service was built, the files search_files
\* finds, and the text get_file_content downloads (None when it cannot).
DriveAnswers ==
  {[service |-> FALSE, files |-> <<>>, content |-> None],
   [service |-> TRUE, files |-> <<>>, content |-> None],
   [service |-> TRUE, files |-> <<[name |-> "research framework", id |-> "f1"]>>,
    content |-> Some("1. Scope\n2. Evidence\n3. Risks")],
   [service |-> TRUE, files |-> <<[name |-> "research framework", id |-> "f1"]>>,
    content |-> None],
   [service |-> TRUE, files |-> <<[id |-> "f2"]>>, content |-> Some("1. Scope")]}

\* What became of the document: "found", "absent" (no service, no file of
\* that name, or no content downloaded), "raised"
DocumentOutcome(drive) ==
  IF ~drive.service \/ Len(drive.files) = 0 THEN "absent"
  ELSE IF ~({"name", "id"} \subseteq DOMAIN drive.files[1]) THEN "raised"
  ELSE IF ~IsNone(drive.content) /\ Val(drive.content) # "" THEN "found"
  ELSE "absent"

\* The text returned, or the KeyError of file['name'] / file['id']
fetch_research_framework(drive) ==
  IF ~drive.service THEN [raised |-> FALSE, text |-> default_framework]
  ELSE IF Len(drive.files) = 0 THEN [raised |-> FALSE, text |-> default_framework]
  ELSE IF ~({"name", "id"} \subseteq DOMAIN drive.files[1]) THEN Raised("KeyError")
  ELSE IF ~IsNone(drive.content) /\ Val(drive.content) # ""
       THEN [raised |-> FALSE, text |-> Val(drive.content)]
       ELSE [raised |-> FALSE, text |-> default_framework]

-----------------------------------------------------------------------------
(* ResearchTools.search_web *)

\* A JSON value that is no object
NonObj == [nonobj |-> TRUE]
IsDict(v) == "nonobj" \notin DOMAIN v

\* What the generation capability answers to the search prompt: a provider
\* error, text that json.loads rejects, or the decoded JSON value.  A dict
\* lists its keys; results = None is JSON null.
GenError == [kind |-> "error"]
Garbage == [kind |-> "garbage"]
JsonDict(keys, results) == [kind |-> "dict", keys |-> keys, results |-> results]
JsonList(items) == [kind |-> "list", items |-> items]
JsonScalar == [kind |-> "scalar"]
Wrapper(items) == [results |-> items]

\* A decoder that knows the dict and the bare list only
search_web_two_shapes(reply) ==
  IF reply.kind = "dict" /\ "results" \in reply.keys /\ ~IsNone(reply.results)
  THEN Val(reply.results)
  ELSE IF reply.kind = "list" THEN reply.items
  ELSE <<>>

\* The value search_web returns: the provider error and every other
\* exception (json.loads, len() of a null) end in `return []`.
search_web(reply) ==
  IF reply.kind \in {"error", "garbage"} THEN <<>>
  ELSE IF reply.kind = "dict"
  THEN (IF "results" \notin reply.keys THEN <<>>
        ELSE IF IsNone(reply.results) THEN <<>>
        ELSE Val(reply.results))
  ELSE IF reply.kind = "list"
  THEN LET results == reply.items
       IN  IF /\ Len(results) > 0
              /\ IsDict(results[1])
              /\ DOMAIN results[1] \cap {"title", "url", "summary"} # {}
           THEN results
           ELSE IF Len(results) = 1 /\ IsDict(results[1]) /\ "results" \in DOMAIN results[1]
           THEN results[1].results
           ELSE results
  ELSE <<>>

-----------------------------------------------------------------------------
(* ResearchTools.fetch_url_content and analyze_sources *)

\* page: None when the request or the parse raises, else the cleaned text
fetch_url_content(url, page, max_length) ==
  IF IsNone(url) \/ IsNone(page) THEN None
  ELSE IF Len(Val(page)) > max_length
       THEN Some(SubSeq(Val(page), 1, max_length) \o "...")
       ELSE page

NoSourcesText == "No sources available to analyze. The web search returned no results."

\* One SOURCE block of the synthesis prompt
PromptBlock(s, i) ==
  [number |-> i, title |-> s.title, url |-> s.url,
   content |-> dict_get(s, "content", dict_get(s, "summary", Some("")))]

\* A synthesis that asks the generation capability even for no source
analyze_without_shortcut(sources, research_question, framework, answer) ==
  [called |-> TRUE,
   prompt |-> Some([question |-> research_question, framework |-> framework,
                    sources |-> [i \in 1..Len(sources) |-> PromptBlock(sources[i], i)]]),
   text |-> IF IsNone(answer) THEN "Error during analysis: RuntimeError: provider error"
            ELSE Val(answer)]

\* [called, prompt, text]: whether the generation capability was called, the
\* prompt it was given and the findings text returned.  answer is the text
\* the capability gives, None when it fails.
analyze_sources(sources, research_question, framework, answer) ==
  IF Len(sources) = 0 THEN [called |-> FALSE, prompt |-> None, text |-> NoSourcesText]
  ELSE LET prompt == [question |-> research_question,
                      framework |-> framework,
                      sources |-> [i \in 1..Len(sources) |-> PromptBlock(sources[i], i)]]
       IN  [called |-> TRUE, prompt |-> Some(prompt),
            text |-> IF IsNone(answer) THEN "Error during analysis: RuntimeError: provider error"
                     ELSE Val(answer)]

-----------------------------------------------------------------------------
(* ResearchAgent: the six nodes.  Each is a function of the state and of    *)
(* what the outside answers, and gives the patch the graph merges into the  *)
(* state; fetch_content_node, which catches nothing, may raise instead.     *)

fetch_framework_node(st, drive) ==
  LET r == fetch_research_framework(drive)
  IN  IF r.raised
      THEN [framework_loaded |-> FALSE, framework_content |-> "",
            status |-> "framework_error", error_message |-> Some("'name'")]
      ELSE IF r.text # ""
      THEN [framework_loaded |-> TRUE, framework_content |-> r.text,
            status |-> "framework_loaded"]
      ELSE [framework_loaded |-> FALSE, framework_content |-> "",
            status |-> "framework_not_found"]

\* The items whose r['title'] raises, in the loop that prints the titles
Untitled(results) == {i \in 1..Len(results) : ~IsDict(results[i]) \/ "title" \notin DOMAIN results[i]}

search_web_node(st, reply) ==
  LET results == search_web(reply)
      bad == Untitled(results)
  IN  IF bad = {}
      THEN [search_results |-> results, status |-> "search_complete"]
      ELSE [search_results |-> <<>>, status |-> "search_error",
            error_message |-> Some(IF IsDict(results[SetMin(bad)]) THEN "'title'"
                                   ELSE "'int' object is not subscriptable")]

\* content if content else result.get('summary', '')
\* A content field without the fallback to the summary
ContentAsExtracted(content, result) == content

ContentOr(content, result) ==
  IF ~IsNone(content) /\ Val(content) # "" THEN content
  ELSE dict_get(result, "summary", Some(""))

\* The calls of fetch_url_content that fetch_content_node makes, in order,
\* each with what it returned
Extractions(search_results, pages) ==
  [i \in 1..Len(search_results) |->
     [site |-> "fetch_url_content",
      url |-> search_results[i].url,
      text |-> fetch_url_content(search_results[i].url, pages[i], MAX_CONTENT_LENGTH)]]

fetch_content_node(st, pages) ==
  LET search_results == dict_get(st, "search_results", <<>>)
      missing == {i \in 1..Len(search_results) :
                    ~({"title", "url"} \subseteq DOMAIN search_results[i])}
  IN  IF missing # {} THEN Raised("KeyError")
      ELSE [raised |-> FALSE,
            patch |->
              [sources_with_content |->
                 [i \in 1..Len(search_results) |->
                    LET result == search_results[i]
                        content == fetch_url_content(result.url, pages[i], MAX_CONTENT_LENGTH)
                    IN  [title |-> result.title,
                         url |-> result.url,
                         summary |-> dict_get(result, "summary", Some("")),
                         content |-> ContentOr(content, result)]],
               status |-> "content_fetched"]]

\* A patch that keeps every source, the rejected ones too
QaPatchKeepingAll(r) ==
  [sources_with_content |-> r.sources,
   rejected_sources |-> r.rejected_sources,
   qa_validation_details |-> r.reasons,
   status |-> "qa_validated"]

\* A patch whose except branch keeps only the sources accepted before the raise
QaPatchKeepingJudged(r) ==
  IF ~r.raised
  THEN [sources_with_content |-> r.valid_sources,
        rejected_sources |-> r.rejected_sources,
        qa_validation_details |-> r.reasons,
        status |-> "qa_validated"]
  ELSE [sources_with_content |-> r.valid_sources,
        qa_validation_details |-> <<"Validation error: " \o ExcMessage(r.exc)>>,
        status |-> "qa_validation_error"]

\* The patch qa_validate_node returns, r being what validate_sources gave:
\* the except branch keeps the list the validator was annotating.
QaPatch(r) ==
  IF ~r.raised
  THEN [sources_with_content |-> r.valid_sources,
        rejected_sources |-> r.rejected_sources,
        qa_validation_details |-> r.reasons,
        status |-> "qa_validated"]
  ELSE [sources_with_content |-> r.sources,
        qa_validation_details |-> <<"Validation error: " \o ExcMessage(r.exc)>>,
        status |-> "qa_validation_error"]

qa_validate_node(st) ==
  QaPatch(validate_sources(st.research_query, dict_get(st, "sources_with_content", <<>>)))

\* A synthesis patch that reports the status of the search stage
AnalysisPatchOfSearch(findings, sources) ==
  [research_findings |-> findings,
   findings_qa |-> validate_findings(findings, sources),
   status |-> "search_complete"]

\* No call made in the try block raises for a query that is a string: the
\* except branch (analysis_error) has nothing that reaches it.
AnalysisPatch(findings, sources) ==
  [research_findings |-> findings,
   findings_qa |-> validate_findings(findings, sources),
   status |-> "analysis_complete"]

\* A synthesis stage that judges the findings against the raw candidates
analyze_against_candidates(st, answer) ==
  AnalysisPatch(analyze_sources(dict_get(st, "sources_with_content", <<>>), st.research_query,
                                dict_get(st, "framework_content", ""), answer).text,
                dict_get(st, "search_results", <<>>))

analyze_node(st, answer) ==
  AnalysisPatch(analyze_sources(dict_get(st, "sources_with_content", <<>>), st.research_query,
                                dict_get(st, "framework_content", ""), answer).text,
                dict_get(st, "sources_with_content", <<>>))

\* A record whose status is the one a successful save leaves in the state
output_data_after_save(st, timestamp) ==
  [research_query |-> st.research_query,
   timestamp |-> timestamp,
   framework_used |-> dict_get(st, "framework_loaded", FALSE),
   sources |-> dict_get(st, "sources_with_content", <<>>),
   findings |-> dict_get(st, "research_findings", ""),
   qa_validation |->
     [sources_qa |-> [validation_details |-> dict_get(st, "qa_validation_details", <<>>),
                      rejected_sources |-> dict_get(st, "rejected_sources", <<>>)],
      findings_qa |-> dict_get(st, "findings_qa", <<>>)],
   status |-> "complete"]

\* The structured record that save_output_node dumps as JSON
output_data(st, timestamp) ==
  [research_query |-> st.research_query,
   timestamp |-> timestamp,
   framework_used |-> dict_get(st, "framework_loaded", FALSE),
   sources |-> dict_get(st, "sources_with_content", <<>>),
   findings |-> dict_get(st, "research_findings", ""),
   qa_validation |->
     [sources_qa |-> [validation_details |-> dict_get(st, "qa_validation_details", <<>>),
                      rejected_sources |-> dict_get(st, "rejected_sources", <<>>)],
      findings_qa |-> dict_get(st, "findings_qa", <<>>)],
   status |-> dict_get(st, "status", "unknown")]

\* The rendered report: the query, the findings and one entry per source
markdown_report(st) ==
  LET sources == dict_get(st, "sources_with_content", <<>>)
  IN  [query |-> st.research_query,
       findings |-> dict_get(st, "research_findings", "No findings"),
       sources |-> [i \in 1..Len(sources) |->
                      [number |-> i,
                       title |-> dict_get(sources[i], "title", Some("Untitled")),
                       url |-> dict_get(sources[i], "url", Some("")),
                       summary |-> dict_get(sources[i], "summary", Some(""))]]]

\* json.dump(output_data, f, indent=2, ensure_ascii=False): a string is
\* written between quotes, with the quote, the backslash and the control
\* characters replaced by their escape sequences
EscapedChars == {"\"", "\\", "\n", "\t", "\r", "\f"}
EscapeChar(c) ==
  IF c = "\"" THEN "\\\""
  ELSE IF c = "\\" THEN "\\\\"
  ELSE IF c = "\n" THEN "\\n"
  ELSE IF c = "\t" THEN "\\t"
  ELSE IF c = "\r" THEN "\\r"
  ELSE IF c = "\f" THEN "\\f"
  ELSE c
\* s from position from on, stops being the positions to replace
RECURSIVE EscapeFrom(_, _, _)
EscapeNext(s, from, stops, rest) ==
  IF rest = {} THEN SubSeq(s, from, Len(s))
  ELSE SubSeq(s, from, SetMin(rest) - 1) \o EscapeChar(At(s, SetMin(rest)))
       \o EscapeFrom(s, SetMin(rest) + 1, stops)
EscapeFrom(s, from, stops) == EscapeNext(s, from, stops, {i \in stops : i >= from})
\* An encoder that leaves the backslash as it is
EscapeAllButBackslash(s) ==
  EscapeFrom(s, 1, {i \in 1..Len(s) : At(s, i) \in EscapedChars \ {"\\"}})
Escape(s) == EscapeFrom(s, 1, {i \in 1..Len(s) : At(s, i) \in EscapedChars})
DumpString(s) == "\"" \o Escape(s) \o "\""
DumpOptional(v) == IF IsNone(v) THEN "null" ELSE DumpString(Val(v))
\* relevance_score is written as the repr of the float, which reads back as
\* the same float: the member keeps the value
DumpSource(source) ==
  [k \in DOMAIN source |->
     IF k = "relevance_score" THEN source[k] ELSE DumpOptional(source[k])]
\* The document: one text per string member; the qa_validation member is
\* kept as the value that is dumped
json_dump(data) ==
  [research_query |-> DumpString(data.research_query),
   timestamp |-> DumpString(data.timestamp),
   framework_used |-> IF data.framework_used THEN "true" ELSE "false",
   sources |-> [i \in 1..Len(data.sources) |-> DumpSource(data.sources[i])],
   findings |-> DumpString(data.findings),
   qa_validation |-> data.qa_validation,
   status |-> DumpString(data.status)]

\* json.load: the characters between the quotes, read chunk by chunk up to
\* the next backslash; the backslash and the character after it are read as
\* the character they stand for
UnescapeChar(c) ==
  IF c = "n" THEN "\n"
  ELSE IF c = "t" THEN "\t"
  ELSE IF c = "r" THEN "\r"
  ELSE IF c = "f" THEN "\f"
  ELSE c
RECURSIVE ReadFrom(_, _, _)
ReadNext(e, from, slashes, rest) ==
  IF rest = {} THEN SubSeq(e, from, Len(e))
  ELSE SubSeq(e, from, SetMin(rest) - 1) \o UnescapeChar(At(e, SetMin(rest) + 1))
       \o ReadFrom(e, SetMin(rest) + 2, slashes)
ReadFrom(e, from, slashes) == ReadNext(e, from, slashes, {i \in slashes : i >= from})
ReadString(e) == ReadFrom(e, 1, {i \in 1..Len(e) : At(e, i) = "\\"})
LoadString(text) == ReadString(SubSeq(text, 2, Len(text) - 1))
LoadOptional(text) == IF text = "null" THEN None ELSE Some(LoadString(text))
LoadSource(member) ==
  [k \in DOMAIN member |->
     IF k = "relevance_score" THEN member[k] ELSE LoadOptional(member[k])]
json_load(doc) ==
  [research_query |-> LoadString(doc.research_query),
   timestamp |-> LoadString(doc.timestamp),
   framework_used |-> doc.framework_used = "true",
   sources |-> [i \in 1..Len(doc.sources) |-> LoadSource(doc.sources[i])],
   findings |-> LoadString(doc.findings),
   qa_validation |-> doc.qa_validation,
   status |-> LoadString(doc.status)]

JsonPath(timestamp) == OUTPUT_DIR \o "/research_" \o timestamp \o ".json"
MarkdownPath(timestamp) == OUTPUT_DIR \o "/research_" \o timestamp \o ".md"

\* A save that reports the path and complete whatever the writes did
save_output_regardless(st, io, timestamp) ==
  [output_path |-> Some(JsonPath(timestamp)), status |-> "complete"]

\* A save that clears the error message when both writes succeed
save_output_clearing(st, io, timestamp) ==
  IF io = "ok"
  THEN [output_path |-> Some(JsonPath(timestamp)), status |-> "complete",
        error_message |-> None]
  ELSE [status |-> "error", error_message |-> Some("[Errno 28] No space left on device")]

\* io: "ok", or the write that raises ("json", "md")
save_output_node(st, io, timestamp) ==
  IF io = "ok"
  THEN [output_path |-> Some(JsonPath(timestamp)), status |-> "complete"]
  ELSE [status |-> "error", error_message |-> Some("[Errno 28] No space left on device")]

\* The files on disk after save_output_node
written(st, io, timestamp) ==
  IF io = "json" THEN <<>>
  ELSE <<[path |-> JsonPath(timestamp), json |-> output_data(st, timestamp),
          text |-> json_dump(output_data(st, timestamp))]>>
       \o (IF io = "md" THEN <<>>
           ELSE <<[path |-> MarkdownPath(timestamp), markdown |-> markdown_report(st)]>>)

initial_state(research_query) ==
  [research_query |-> research_query,
   framework_loaded |-> FALSE,
   framework_content |-> "",
   search_results |-> <<>>,
   sources_with_content |-> <<>>,
   research_findings |-> "",
   status |-> "initializing",
   error_message |-> None,
   output_path |-> None]

-----------------------------------------------------------------------------
(* What the outside can answer during a run *)

RunQueries == {"AI trends", "the of and", "latest education trends"}

CandidateInputs ==
  {Source(Str("Market trends 2024"), Str("https://example.com/trends"), Str("A report")),
   Source(Str("AI today"), Str("https://news.org/ai"), Str("About AI")),
   Source(Str("AI trends"), Str("https://www.facebook.com/ai-trends"), Str("AI trends")),
   Source(None, Str("https://example.com/null"), Str("trends")),
   [title |-> Str("Trends without a link"), summary |-> Str("trends")],
   [url |-> Str("https://example.com/untitled"), summary |-> Str("trends")],
   NonObj}

MaxCandidates == 2
CandidateLists == UNION {[1..n -> CandidateInputs] : n \in 0..MaxCandidates}

\* Replies with as many candidates as search_web asks for: one that the
\* filter accepts among four that it rejects (one of them without a summary
\* key), and four accepted with one rejected
FullLists ==
  LET market == Source(Str("Market trends 2024"), Str("https://example.com/trends"),
                       Str("A \"yearly\" report\\notes\ttab"))
      today == Source(Str("AI today"), Str("https://news.org/ai"), Str("About AI"))
      facebook == Source(Str("AI trends"), Str("https://www.facebook.com/ai-trends"), Str("AI trends"))
      weekly == [title |-> Str("AI weekly"), url |-> Str("https://news.org/weekly")]
  IN  {<<market, today, weekly, facebook, today>>,
       <<market, market, facebook, market, market>>}

SearchReplies ==
  {GenError, Garbage, JsonScalar, JsonDict({}, None), JsonDict({"results"}, None)}
  \cup {JsonDict({"results"}, Some(l)) : l \in FullLists}
  \cup {JsonDict({"results"}, Some(l)) : l \in CandidateLists}
  \cup {JsonList(l) : l \in CandidateLists}
  \cup {JsonList(<<Wrapper(l)>>) : l \in CandidateLists}

PageAnswers == {None, Some("Full text of the page about the latest trends.")}
\* What the n pages answer: every combination for a short list, the same
\* answer from every page for a full list, an empty page text included
PageChoices(n) ==
  IF n <= MaxCandidates THEN [1..n -> PageAnswers]
  ELSE {[i \in 1..n |-> p] : p \in PageAnswers \cup {Some("")}}

GoodFindings ==
  "## Key Findings\n1. Trends are rising [Source 1](https://example.com/trends).\n"
  \o Rep("Detailed analysis of the data. ", 6)
  \o "\nSee the \"hype\" file C:\\new\\table.\nIn summary, adoption grows."
AnalysisAnswers == {None, Some(GoodFindings), Some("It might be that trends exist, maybe.")}

IoAnswers == {"ok", "json", "md"}
Timestamps == {"20240101_120000"}

-----------------------------------------------------------------------------
(* ResearchAgent.run: one action per node of the graph *)

Init ==
  /\ PipelineIdle
  /\ call = NoCall

Run ==
  /\ pc = "idle"
  /\ \E q \in RunQueries : state' = initial_state(q)
  /\ pc' = "fetch_framework"
  /\ UNCHANGED <<llm_log, io_log, files, escaped, call>>

FetchFramework ==
  /\ pc = "fetch_framework"
  /\ \E drive \in DriveAnswers :
       /\ state' = Merge(state, fetch_framework_node(state, drive))
       /\ io_log' = Append(io_log, [site |-> "drive", document |-> DocumentOutcome(drive)])
  /\ pc' = "search_web"
  /\ UNCHANGED <<llm_log, files, escaped, call>>

SearchWeb ==
  /\ pc = "search_web"
  /\ \E reply \in SearchReplies :
       /\ state' = Merge(state, search_web_node(state, reply))
       /\ llm_log' = Append(llm_log, [site |-> "search_web",
                                      query |-> state.research_query,
                                      num_results |-> MAX_SEARCH_RESULTS,
                                      ok |-> reply.kind # "error",
                                      parsed |-> reply.kind \notin {"error", "garbage"}])
  /\ pc' = "fetch_content"
  /\ UNCHANGED <<io_log, files, escaped, call>>

FetchContent ==
  /\ pc = "fetch_content"
  /\ \E pages \in PageChoices(Len(state.search_results)) :
       LET r == fetch_content_node(state, pages)
       IN  IF r.raised
           THEN /\ pc' = "raised"
                /\ escaped' = Some(r.exc)
                /\ state' = state
                /\ io_log' = io_log
           ELSE /\ pc' = "qa_validate"
                /\ escaped' = escaped
                /\ state' = Merge(state, r.patch)
                /\ io_log' = io_log \o Extractions(state.search_results, pages)
  /\ UNCHANGED <<llm_log, files, call>>

QaValidate ==
  /\ pc = "qa_validate"
  /\ state' = Merge(state, qa_validate_node(state))
  /\ pc' = "analyze"
  /\ UNCHANGED <<llm_log, io_log, files, escaped, call>>

\* The generation calls made so far, with the one analyze_sources makes
LogAnalysis(log, a, answer) ==
  IF a.called
  THEN Append(log, [site |-> "analyze_sources", prompt |-> Val(a.prompt), ok |-> ~IsNone(answer)])
  ELSE log

Analyze ==
  /\ pc = "analyze"
  /\ \E answer \in AnalysisAnswers :
       /\ state' = Merge(state, analyze_node(state, answer))
       /\ llm_log' = LogAnalysis(llm_log,
                                 analyze_sources(state.sources_with_content, state.research_query,
                                                 state.framework_content, answer),
                                 answer)
  /\ pc' = "save_output"
  /\ UNCHANGED <<io_log, files, escaped, call>>

SaveOutput ==
  /\ pc = "save_output"
  /\ \E io \in IoAnswers, timestamp \in Timestamps :
       /\ state' = Merge(state, save_output_node(state, io, timestamp))
       /\ files' = files \o written(state, io, timestamp)
  /\ pc' = "done"
  /\ UNCHANGED <<llm_log, io_log, escaped, call>>

\* QAValidator(query).validate_all(sources, findings), called on its own
AllSourceLists ==
  FullLists \cup {<<>>, <<Source(None, Str("https://example.com/null"), Str("trends"))>>}
AllFindings == {GoodFindings, "It might be that trends exist, maybe."}

ValidateAll ==
  /\ pc = "idle"
  /\ \E q \in RunQueries, l \in AllSourceLists, f \in AllFindings :
       call' = [fn |-> "validate_all", query |-> q, sources |-> l, findings |-> f,
                done |-> TRUE, ret |-> validate_all(q, l, f)]
  /\ pc' = "validated"
  /\ UNCHANGED <<state, llm_log, io_log, files, escaped>>

Next ==
  \/ Run \/ FetchFramework \/ SearchWeb \/ FetchContent \/ QaValidate \/ Analyze \/ SaveOutput
  \/ ValidateAll

Spec == Init /\ [][Next]_vars

-----------------------------------------------------------------------------
(* Two runs on one ResearchAgent, as the Slack bot's singleton makes them.  *)
(* llm_log, io_log and files record what the current run did.              *)

\* A run that starts from the final state of the run before
carried_state(previous, research_query) == Merge(previous, initial_state(research_query))

\* The state graph.invoke is given: the dict literal of run; previous, the
\* final state of the run before, is not read (the graph has no checkpointer)
run_state(previous, research_query) == initial_state(research_query)

InitRuns ==
  /\ PipelineIdle
  /\ call = [fn |-> "run", again |-> FALSE]

RunAgain ==
  /\ pc \in {"done", "raised"}
  /\ call.fn = "run"
  /\ ~call.again
  /\ \E q \in RunQueries : state' = run_state(state, q)
  /\ call' = [fn |-> "run", again |-> TRUE]
  /\ pc' = "fetch_framework"
  /\ llm_log' = <<>>
  /\ io_log' = <<>>
  /\ files' = <<>>
  /\ escaped' = None

NextRuns == Next \/ RunAgain
SpecRuns == InitRuns /\ [][NextRuns]_vars

-----------------------------------------------------------------------------
(* search_web and search_web_node called on their own, once per reply of   *)
(* the generation capability                                                *)

\* Replies of further shapes: objects with other keys, two wrappers, a
\* wrapper inside the dict, a wrapper that has a title of its own
OtherReplies ==
  LET market == Source(Str("Market trends 2024"), Str("https://example.com/trends"), Str("A report"))
      named == [name |-> Str("Market trends 2024")]
  IN  {JsonList(<<named>>), JsonList(<<named, market>>),
       JsonList(<<Wrapper(<<market>>), Wrapper(<<market>>)>>),
       JsonList(<<NonObj, market>>),
       JsonList(<<[results |-> <<market>>, title |-> Str("Results")]>>),
       JsonDict({"results"}, Some(<<named>>)),
       JsonDict({"results"}, Some(<<Wrapper(<<market>>)>>)),
       JsonDict({"sources"}, None)}
ReplyInputs == SearchReplies \cup OtherReplies

InitSearch ==
  /\ PipelineIdle
  /\ call \in {[fn |-> f, query |-> "AI trends", reply |-> r, done |-> FALSE] :
                 f \in {"search_web", "search_web_node"}, r \in ReplyInputs}

CallSearchWeb ==
  /\ call.fn = "search_web"
  /\ ~call.done
  /\ call' = [fn |-> call.fn, query |-> call.query, reply |-> call.reply, done |-> TRUE,
              ret |-> [raised |-> FALSE, results |-> search_web(call.reply)]]
  /\ UNCHANGED <<pc, state, llm_log, io_log, files, escaped>>

CallSearchWebNode ==
  /\ call.fn = "search_web_node"
  /\ ~call.done
  /\ call' = [fn |-> call.fn, query |-> call.query, reply |-> call.reply, done |-> TRUE,
              ret |-> [raised |-> FALSE,
                       patch |-> search_web_node(initial_state(call.query), call.reply)]]
  /\ UNCHANGED <<pc, state, llm_log, io_log, files, escaped>>

NextSearch == CallSearchWeb \/ CallSearchWebNode
SpecSearch == InitSearch /\ [][NextSearch]_vars

-----------------------------------------------------------------------------
(* Properties of the source filter, checked under SpecSources *)

ReturnedFrom(fn) == call.fn = fn /\ call.done /\ ~call.ret.raised

\* The url of a source, with a stand-in for a dict that has no url key
UrlOf(source) == dict_get(source, "url", <<"", "no url key">>)
UrlCount(sources, u) == Cardinality({i \in 1..Len(sources) : UrlOf(sources[i]) = u})

\* C1: whatever the query and whatever the outside answers (document fetch,
\* generation, content extraction), no exception raised inside a stage
\* propagates out of ResearchAgent.run.
C1_NoExceptionLeavesRun == IsNone(escaped) /\ pc # "raised"

\* C2: when validate_sources returns, the accepted and the rejected lists
\* together hold every input source once: the lengths add up to the length
\* of the input and every URL occurs in the two lists as often as in the input.
C2_FilterPartitionsInput ==
  ReturnedFrom("validate_sources") =>
    /\ Len(call.ret.valid_sources) + Len(call.ret.rejected_sources) = Len(call.sources)
    /\ \A i \in 1..Len(call.sources) :
         UrlCount(call.sources, UrlOf(call.sources[i]))
           = UrlCount(call.ret.valid_sources, UrlOf(call.sources[i]))
             + UrlCount(call.ret.rejected_sources, UrlOf(call.sources[i]))
    /\ \A i \in 1..Len(call.ret.valid_sources) :
         UrlCount(call.sources, UrlOf(call.ret.valid_sources[i])) > 0
    /\ \A i \in 1..Len(call.ret.rejected_sources) :
         UrlCount(call.sources, UrlOf(call.ret.rejected_sources[i])) > 0

\* A returned call on two sources of which one was accepted and one rejected
C2_Witness ==
  /\ ReturnedFrom("validate_sources")
  /\ Len(call.sources) = 2
  /\ Len(call.ret.valid_sources) = 1
  /\ Len(call.ret.rejected_sources) = 1

\* The netloc of the source's url as validate_source computes it
DomainOf(source) ==
  str_lower(urlparse_netloc(str_lower(Val(dict_get(source, "url", Some(""))))).netloc)

\* C3: a query made of stop-words only has no keyword, and then every source
\* on a credible domain is accepted with the neutral score 0.5.
C3_NoKeywordAcceptsAtHalf ==
  (/\ ReturnedFrom("validate_source")
   /\ call.query \in {"the of and", "The AND is"}
   /\ _is_credible_domain(DomainOf(call.source)))
  => /\ Len(_extract_keywords(call.query)) = 0
     /\ call.ret.is_valid
     /\ call.ret.score = FracHalf

-----------------------------------------------------------------------------
(* Properties of the run, checked under Spec *)

LastCall == llm_log[Len(llm_log)]

\* C5: a failure of the generation capability inside the search stage or the
\* synthesis stage is recorded by that stage as search_error, respectively
\* analysis_error, with a non-null error_message.
C5_GenerationFailureRecorded ==
  /\ (pc = "fetch_content" /\ ~LastCall.ok)
       => state.status = "search_error" /\ ~IsNone(state.error_message)
  /\ (pc = "save_output" /\ Len(llm_log) > 0 /\ LastCall.site = "analyze_sources" /\ ~LastCall.ok)
       => state.status = "analysis_error" /\ ~IsNone(state.error_message)

AfterSaving == pc = "done"
\* A run that has started and has not left save_output_node
BeforeSaving ==
  pc \in {"fetch_framework", "search_web", "fetch_content", "qa_validate", "analyze",
          "save_output", "raised"}
BothWritten == Len(files) = 2

\* C6: output_path is null until save_output_node has run; in the final
\* state it is non-null exactly when status is complete, exactly when both
\* files were written, and a failed write ends in status error with a null
\* output_path.
C6_OutputPathOnlyOnSuccess ==
  /\ BeforeSaving => IsNone(state.output_path) /\ files = <<>>
  /\ AfterSaving =>
       /\ ~IsNone(state.output_path) <=> state.status = "complete"
       /\ state.status = "complete" <=> BothWritten
       /\ ~BothWritten => state.status = "error" /\ IsNone(state.output_path)

\* A run that ended complete after a stage had reported an error and the
\* findings had been judged invalid
C6_Witness ==
  /\ AfterSaving
  /\ state.status = "complete"
  /\ ~IsNone(state.output_path)
  /\ ~IsNone(state.error_message)
  /\ ~state.findings_qa.is_valid

AfterFilter == pc \in {"analyze", "save_output", "done"}
Accepted == state.sources_with_content
Rejected == dict_get(state, "rejected_sources", <<>>)
\* A source without the filter's annotations
Core(source) ==
  [k \in DOMAIN source \cap {"title", "url", "summary", "content"} |-> source[k]]
Cores(sources) == {Core(sources[i]) : i \in 1..Len(sources)}

C7_Partition ==
  AfterFilter =>
    /\ Len(Accepted) + Len(Rejected) = Len(state.search_results)
    /\ Cores(Accepted) \cap Cores(Rejected) = {}
    /\ (pc # "analyze" /\ Len(Accepted) > 0) =>
         /\ LastCall.site = "analyze_sources"
         /\ Len(LastCall.prompt.sources) = Len(Accepted)
         /\ \A i \in 1..Len(Accepted) : LastCall.prompt.sources[i].url = Accepted[i].url
    /\ (pc # "analyze" /\ Len(Accepted) = 0) => LastCall.site = "search_web"
    /\ (AfterSaving /\ Len(files) > 0) => files[1].json.sources = Accepted
    /\ (AfterSaving /\ BothWritten) => Len(files[2].markdown.sources) = Len(Accepted)

C7_SourcesKept ==
  AfterFilter => state'.sources_with_content = state.sources_with_content

\* C7: from the end of qa_validate_node on, sources and rejected_sources are
\* disjoint and their lengths add up to the number of candidates, whether the
\* filter ran or the validator raised; sources never changes afterwards, and
\* the synthesis prompt and the saved sources list hold the sources only.
C7_SourcesPartitionedAfterFilter == []C7_Partition /\ [][C7_SourcesKept]_vars

\* A saved run in which the filter accepted one candidate and rejected one
C7_Witness ==
  /\ AfterSaving
  /\ BothWritten
  /\ state.status = "complete"
  /\ Len(Accepted) = 1
  /\ Len(Rejected) = 1

\* The candidates of the C10 scenario: both with text fields, one on a
\* blacklisted domain, one on a domain that no pattern matches
TextFields(c) ==
  /\ {"title", "url"} \subseteq DOMAIN c
  /\ ~IsNone(c.title) /\ ~IsNone(c.url) /\ ~IsNone(dict_get(c, "summary", Some("")))
CandidateText(c) ==
  str_lower(Val(c.title)) \o " " \o str_lower(Val(dict_get(c, "summary", Some(""))))
HasWord(c, w) == str_in(w, CandidateText(c))
OnBlacklist(c) == str_in("facebook", DomainOf(c))
OffBlacklist(c) ==
  /\ DomainOf(c) # ""
  /\ \A i \in 1..Len(bad_patterns) : ~str_in(bad_patterns[i], DomainOf(c))
Scenario(allowed_one) ==
  /\ AfterFilter
  /\ state.research_query = "AI trends"
  /\ Len(state.search_results) = 2
  /\ \A i \in 1..2 : TextFields(state.search_results[i])
  /\ \E i, j \in 1..2 :
       /\ i # j
       /\ OnBlacklist(state.search_results[i])
       /\ OffBlacklist(state.search_results[j])
       /\ allowed_one[state.search_results[j]]
OneSurvives ==
  /\ Len(Accepted) = 1
  /\ Len(Rejected) = 1
  /\ FracLess(FracZero, Accepted[1].relevance_score)
  /\ ~FracLess(FracOne, Accepted[1].relevance_score)
  /\ pc # "analyze" =>
       /\ LastCall.site = "analyze_sources"
       /\ Len(LastCall.prompt.sources) = 1

ExactlyOneWord == [c \in CandidateInputs |-> HasWord(c, "ai") # HasWord(c, "trends")]
TrendsWord == [c \in CandidateInputs |-> HasWord(c, "trends")]

\* C10 as stated: for the query "AI trends" and two candidates, one on a
\* blacklisted domain and one on an allowed domain whose title and summary
\* hold exactly one of the two query words, whichever it is, the filter keeps
\* one source and rejects one, the kept one has a score in (0,1], and the
\* synthesis prompt holds exactly one source.
C10_EitherWordSurvives == Scenario(ExactlyOneWord) => OneSurvives

\* C10 amended: the same, for an allowed candidate whose title and summary
\* hold the word "trends", the only keyword that "AI trends" yields; the kept
\* source has the score 1.0.
C10_TrendsWordSurvives ==
  Scenario(TrendsWord) => OneSurvives /\ Accepted[1].relevance_score = FracOne

\* The scenario after synthesis, the prompt built
C10_Witness ==
  /\ Scenario(TrendsWord)
  /\ pc = "save_output"
  /\ LastCall.site = "analyze_sources"
  /\ Len(Accepted) = 1

-----------------------------------------------------------------------------
(* Properties of the findings check, checked under SpecFindings *)

Judgement == call.fn = "validate_findings" /\ call.done

\* The penalty, in hundredths, of the check that gives an issue
PenaltyOf(issue) ==
  IF str_in("too brief", issue) THEN 30
  ELSE IF str_in("No sources cited", issue) THEN 40
  ELSE IF str_in("Low citation rate", issue) THEN 20
  ELSE IF str_in("lacks acuteness", issue) THEN 20
  ELSE IF str_in("contradictions", issue) THEN 25
  ELSE IF str_in("lack clear structure", issue) THEN 15
  ELSE 10
RECURSIVE PenaltySum(_)
PenaltySum(issues) ==
  IF Len(issues) = 0 THEN 0 ELSE PenaltyOf(Head(issues)) + PenaltySum(Tail(issues))
\* 1.0 minus the penalties, clamped at 0, in hundredths
Remaining(issues) == Max2(0, 100 - PenaltySum(issues))

\* x is the double that the decimal h / 100 denotes; 0.05 lies below the
\* doubles counted here, and for it x is only asked to lie in (0, 0.1)
IsDecimal(x, h) ==
  IF h = 5
  THEN DblLess(Literal(0, 1), x) /\ DblLess(x, Literal(1, 10))
  ELSE x = Literal(h, 100)

\* C8: the score is 1.0 minus the sum of the penalties of the failed checks
\* (0.3, 0.4, 0.2, 0.2, 0.25, 0.15, 0.1), clamped to [0,1]; it is 1.0 exactly
\* when there is no issue.
C8_ScoreIsOneMinusPenalties ==
  Judgement =>
    /\ IsDecimal(call.ret.quality_score, Remaining(call.ret.issues))
    /\ call.ret.quality_score = Literal(1, 1) <=> Len(call.ret.issues) = 0

\* C9: is_valid holds exactly when the clamped score is at least 0.5 and
\* there are at most two issues; findings of fewer than 200 characters that
\* cite no source score at most 0.3 and are not valid, whatever the number
\* of sources.
C9_ValidIffScoreAndIssues ==
  Judgement =>
    /\ call.ret.is_valid <=>
         (/\ DblGeq(call.ret.quality_score, Literal(1, 2))
          /\ Len(call.ret.issues) <= 2)
    /\ DblGeq(call.ret.quality_score, Literal(0, 1))
    /\ DblGeq(Literal(1, 1), call.ret.quality_score)
    /\ (Len(call.findings) < 200 /\ _count_source_citations(call.findings) = 0) =>
         /\ DblGeq(Literal(3, 10), call.ret.quality_score)
         /\ ~call.ret.is_valid

\* Findings with a score of at least 0.5 that three issues make invalid
C9_Witness ==
  /\ Judgement
  /\ DblGeq(call.ret.quality_score, Literal(1, 2))
  /\ Len(call.ret.issues) = 3
  /\ ~call.ret.is_valid

-----------------------------------------------------------------------------
(* Further properties of the run, checked under Spec *)

\* The generation capability answered the search prompt with text that is
\* no JSON
Unparseable == Len(llm_log) > 0 /\ llm_log[1].ok /\ ~llm_log[1].parsed

\* C11: when the answer to the search prompt is not parseable JSON, the
\* candidate list is empty, fetch_content_node and qa_validate_node end with
\* empty sources and rejected_sources, analyze_node stores the fixed "no
\* sources" text without a second generation call, the findings are scored,
\* and the run ends complete when both files are written.
C11_UnparseableAnswerEndsComplete ==
  Unparseable =>
    /\ pc # "raised"
    /\ state.search_results = <<>>
    /\ pc = "fetch_content" => state.status = "search_complete"
    /\ pc = "qa_validate" => state.status = "content_fetched"
    /\ pc \in {"qa_validate", "analyze", "save_output", "done"} =>
         state.sources_with_content = <<>>
    /\ pc = "analyze" => state.status = "qa_validated"
    /\ AfterFilter =>
         /\ "rejected_sources" \in DOMAIN state
         /\ state.rejected_sources = <<>>
    /\ pc \in {"save_output", "done"} =>
         /\ state.research_findings = NoSourcesText
         /\ Len(llm_log) = 1
         /\ "findings_qa" \in DOMAIN state
         /\ "quality_score" \in DOMAIN state.findings_qa
         /\ ~state.findings_qa.is_valid
    /\ (AfterSaving /\ BothWritten) => state.status = "complete"

\* Such a run, saved
C11_Witness ==
  /\ Unparseable
  /\ AfterSaving
  /\ BothWritten
  /\ state.status = "complete"
  /\ state.research_findings = NoSourcesText

-----------------------------------------------------------------------------
(* Further properties of the source filter, checked under SpecSources *)

\* What validate_source reads of the source of the call: the lower-cased
\* title and summary, and the keywords found in them
CallKeywords == _extract_keywords(call.query)
CallText ==
  str_lower(Val(dict_get(call.source, "title", Some(""))))
    \o " " \o str_lower(Val(dict_get(call.source, "summary", Some(""))))
Found == {i \in 1..Len(CallKeywords) : str_in(CallKeywords[i], CallText)}
HalfCount == Max2(Len(CallKeywords), 2)

\* C12: for a source on a credible domain and k > 0 keywords of which m are
\* in the lower-cased title and summary, the score is min(1, m / max(k/2, 1)),
\* in [0,1]; the source is rejected exactly when m = 0; an accepted source
\* has the low-match warning as reason exactly when the score is below 0.2
\* and the plain reason otherwise.
C12_ScoreIsMatchesOverHalfCount ==
  (/\ ReturnedFrom("validate_source")
   /\ _is_credible_domain(DomainOf(call.source))
   /\ Len(CallKeywords) > 0)
  => LET m == Cardinality(Found)
         score == call.ret.score
     IN  /\ IF 2 * m >= HalfCount THEN score = FracOne
            ELSE score.num * HalfCount = 2 * m * score.den
         /\ ~FracLess(score, FracZero) /\ ~FracLess(FracOne, score)
         /\ ~call.ret.is_valid <=> m = 0
         /\ m >= 1 =>
              IF 5 * score.num < score.den
              THEN str_in("Low keyword match", call.ret.reason)
              ELSE call.ret.reason = "URL is relevant to search context"

\* An accepted source with one keyword of eleven: the warning
C12_Witness ==
  /\ ReturnedFrom("validate_source")
  /\ Len(CallKeywords) = 11
  /\ Cardinality(Found) = 1
  /\ call.ret.is_valid
  /\ call.ret.score = Frac(2, 11)
  /\ str_in("Low keyword match", call.ret.reason)

\* C13: every token that _extract_keywords returns is lower-case, has no
\* punctuation at either end, is longer than 2 characters and is no stop
\* word, whatever the query: also for words with trailing punctuation and
\* for words made of punctuation only.
C13_KeywordsAreCleanTokens ==
  (call.fn \in {"validate_source", "validate_sources"} /\ call.done) =>
    \A i \in 1..Len(CallKeywords) :
      /\ str_lower(CallKeywords[i]) = CallKeywords[i]
      /\ str_strip(CallKeywords[i], KeywordPunctuation) = CallKeywords[i]
      /\ Len(CallKeywords[i]) > 2
      /\ CallKeywords[i] \notin stop_words

-----------------------------------------------------------------------------
(* Further properties of the pipeline, checked under Spec *)

AfterAnalysis == pc \in {"save_output", "done"} /\ "findings_qa" \in DOMAIN state
LowCitationIssue(c, n) ==
  "Low citation rate: " \o IntStr(c) \o "/" \o IntStr(n) \o " sources cited"
Issues(verdict) == {verdict.issues[i] : i \in 1..Len(verdict.issues)}

\* The low-citation issue of a verdict is the one for c citations among n
\* sources, raised exactly when c < 0.3 * n, and for no other count
CitationJudgedAgainst(verdict, c, n) ==
  /\ (c >= 1 /\ 10 * c < 3 * n) => LowCitationIssue(c, n) \in Issues(verdict)
  /\ \A k \in 0..MAX_SEARCH_RESULTS :
       (k # n \/ 10 * c >= 3 * n) => LowCitationIssue(c, k) \notin Issues(verdict)

\* C14: the citation-rate check of the findings counts the sources that
\* passed the filter, which are the sources of the synthesis prompt, and
\* never the raw candidates; validate_all judges the findings against its
\* accepted sources only.
C14_CitationRateCountsSurvivors ==
  /\ AfterAnalysis =>
       CitationJudgedAgainst(state.findings_qa,
                             _count_source_citations(state.research_findings), Len(Accepted))
  /\ (AfterAnalysis /\ state.status = "qa_validated" /\ Len(Accepted) > 0) =>
       Len(LastCall.prompt.sources) = Len(Accepted)
  /\ ReturnedFrom("validate_all") =>
       /\ CitationJudgedAgainst(call.ret.findings_validation,
                                _count_source_citations(call.findings), call.ret.sources_valid)
       /\ call.ret.sources_valid = Len(call.ret.valid_sources)

\* One candidate of five passed the filter and the findings cite one source:
\* 1 < 0.3 * 5 and yet no low citation rate is reported
C14_Witness ==
  /\ AfterAnalysis
  /\ Len(state.search_results) = 5
  /\ Len(Accepted) = 1
  /\ _count_source_citations(state.research_findings) = 1
  /\ \A k \in 0..MAX_SEARCH_RESULTS : LowCitationIssue(1, k) \notin Issues(state.findings_qa)

\* What became of the guidance document in this run
FrameworkFetched == Len(io_log) > 0 /\ io_log[1].site = "drive"
Document == io_log[1].document

\* C15: when the guidance document is absent and nothing raises,
\* fetch_framework_node leaves framework_loaded false and the framework text
\* empty; when the document capability raises, it records framework_error
\* with an error message, framework_loaded false and an empty text.  Either
\* way the run goes on to search_web_node.
C15_AbsentDocumentLeavesNoFramework ==
  FrameworkFetched =>
    /\ pc # "fetch_framework"
    /\ Document = "absent" =>
         /\ state.framework_loaded = FALSE
         /\ state.framework_content = ""
    /\ Document = "raised" =>
         /\ state.framework_loaded = FALSE
         /\ state.framework_content = ""
         /\ ~IsNone(state.error_message)
         /\ pc = "search_web" => state.status = "framework_error"

\* The sources in order, without the filter's annotations
CoreSeq(sources) == [i \in 1..Len(sources) |-> Core(sources[i])]
ValidatorRaises ==
  pc = "qa_validate" /\ validate_sources(state.research_query, state.sources_with_content).raised
FilterSkipped == AfterFilter /\ "rejected_sources" \notin DOMAIN state

\* The step of qa_validate_node in which the validator raises
C16_SkipStep ==
  ValidatorRaises =>
    /\ pc' = "analyze"
    /\ state'.status = "qa_validation_error"
    /\ CoreSeq(state'.sources_with_content) = CoreSeq(state.sources_with_content)
    /\ Len(state'.qa_validation_details) = 1
    /\ SubSeq(state'.qa_validation_details[1], 1, 18) = "Validation error: "
    /\ "rejected_sources" \notin DOMAIN state'
\* ... and what the later stages make of it
C16_SkippedRun ==
  FilterSkipped =>
    /\ Len(Accepted) = Len(state.search_results)
    /\ Len(Accepted) > 0
    /\ pc = "analyze" => state.status = "qa_validation_error"
    /\ pc \in {"save_output", "done"} =>
         /\ LastCall.site = "analyze_sources"
         /\ [i \in 1..Len(Accepted) |-> LastCall.prompt.sources[i].url]
              = [i \in 1..Len(Accepted) |-> Accepted[i].url]

ExtractionLog == SubSeq(io_log, 2, Len(io_log))
HasText(text) == ~IsNone(text) /\ Val(text) # ""
ContentFetched == pc = "qa_validate"

\* C17: when fetch_content_node is done there is one source per candidate,
\* in the order of the candidates, with the candidate's title, url and
\* summary; its content is the text fetch_url_content returned when that is
\* a non-empty text and the candidate's summary otherwise.  No candidate is
\* dropped or rejected by the stage.
C17_OneSourcePerCandidate ==
  ContentFetched =>
    /\ state.status = "content_fetched"
    /\ "rejected_sources" \notin DOMAIN state
    /\ Len(state.sources_with_content) = Len(state.search_results)
    /\ Len(ExtractionLog) = Len(state.search_results)
    /\ \A i \in 1..Len(state.search_results) :
         LET candidate == state.search_results[i]
             source == state.sources_with_content[i]
         IN  /\ DOMAIN source = {"title", "url", "summary", "content"}
             /\ source.title = candidate.title
             /\ source.url = candidate.url
             /\ ExtractionLog[i].url = candidate.url
             /\ source.summary = IF "summary" \in DOMAIN candidate THEN candidate.summary
                                 ELSE Some("")
             /\ source.content = IF HasText(ExtractionLog[i].text) THEN ExtractionLog[i].text
                                 ELSE source.summary

\* Two candidates: the page of the first gave text, the page of the second
\* gave none and its summary stands in
C17_Witness ==
  /\ ContentFetched
  /\ Len(state.search_results) = 2
  /\ HasText(ExtractionLog[1].text)
  /\ state.sources_with_content[1].content = ExtractionLog[1].text
  /\ IsNone(ExtractionLog[2].text)
  /\ state.sources_with_content[2].content = state.search_results[2].summary
  /\ state.sources_with_content[2].content # Some("")

-----------------------------------------------------------------------------
(* Properties of the search decoder, checked under SpecSearch *)

\* An object with a title, url or summary key
IsCandidate(v) == IsDict(v) /\ DOMAIN v \cap {"title", "url", "summary"} # {}
CandidatesOnly(l) == \A i \in 1..Len(l) : IsCandidate(l[i])
Titled(l) == \A i \in 1..Len(l) : "title" \in DOMAIN l[i]

\* The three shapes that carry a candidate list, and the list they carry
NamedField(reply) ==
  /\ reply.kind = "dict"
  /\ "results" \in reply.keys
  /\ ~IsNone(reply.results)
  /\ CandidatesOnly(Val(reply.results))
BareList(reply) == reply.kind = "list" /\ CandidatesOnly(reply.items)
WrappedField(reply) ==
  /\ reply.kind = "list"
  /\ Len(reply.items) = 1
  /\ IsDict(reply.items[1])
  /\ ~IsCandidate(reply.items[1])
  /\ "results" \in DOMAIN reply.items[1]
  /\ CandidatesOnly(reply.items[1].results)
Recognised(reply) == NamedField(reply) \/ BareList(reply) \/ WrappedField(reply)
Payload(reply) ==
  IF NamedField(reply) THEN Val(reply.results)
  ELSE IF WrappedField(reply) THEN reply.items[1].results
  ELSE reply.items

-----------------------------------------------------------------------------
(* Further properties of the findings check, checked under SpecFindings *)

CalledAgain == call.fn = "validate_findings" /\ call.done /\ "again" \in DOMAIN call
C19_SameVerdict ==
  CalledAgain =>
    /\ call.again.ret.is_valid = call.ret.is_valid
    /\ call.again.ret.quality_score = call.ret.quality_score
    /\ call.again.ret.issues = call.ret.issues
    /\ call.again.ret.message = call.ret.message
C19_ArgumentsKept ==
  call.fn = "validate_findings" =>
    /\ call'.findings = call.findings
    /\ call'.sources = call.sources

-----------------------------------------------------------------------------
(* The saved record, checked under Spec *)

RecordWritten == AfterSaving /\ Len(files) > 0
ReadBack == json_load(files[1].text)
HasEscapes(s) == str_in("\"", s) /\ str_in("\\", s) /\ str_in("\n", s)

\* C20: the JSON record that save_output_node writes, read back, gives the
\* research_query, the findings and the sources of the final state: the
\* query and the findings character for character, the sources one by one
\* with every field.
C20_RecordReadsBackAsSaved ==
  RecordWritten =>
    LET back == ReadBack
    IN  /\ back.research_query = state.research_query
        /\ back.findings = state.research_findings
        /\ back.sources = state.sources_with_content

\* A record whose findings and whose first source hold quotes, backslashes
\* and line breaks, and whose written text differs from the value
C20_Witness ==
  /\ RecordWritten
  /\ state.status = "complete"
  /\ HasEscapes(state.research_findings)
  /\ Len(state.sources_with_content) > 0
  /\ str_in("\\", Val(state.sources_with_content[1].summary))
  /\ files[1].text.findings # "\"" \o state.research_findings \o "\""
  /\ ReadBack.findings = state.research_findings

-----------------------------------------------------------------------------
(* Properties of consecutive runs, checked under SpecRuns *)

SecondRun == call.fn = "run" /\ call.again /\ pc # "validated"
StartsRun == pc' = "fetch_framework"

\* The step that starts a run gives a state made of the query and defaults
C21_FreshStart ==
  StartsRun =>
    /\ state' = initial_state(state'.research_query)
    /\ state'.sources_with_content = <<>>
    /\ state'.research_findings = ""
    /\ IsNone(state'.error_message)
    /\ IsNone(state'.output_path)
    /\ DOMAIN state' \cap {"rejected_sources", "qa_validation_details", "findings_qa"} = {}
\* No field holds a value before the stage of this run that writes it
C21_NothingCarried ==
  SecondRun =>
    /\ pc \in {"fetch_framework", "search_web"} => state.search_results = <<>>
    /\ pc \in {"fetch_framework", "search_web", "fetch_content"} =>
         state.sources_with_content = <<>>
    /\ pc \in {"fetch_framework", "search_web", "fetch_content", "qa_validate"} =>
         DOMAIN state \cap {"rejected_sources", "qa_validation_details"} = {}
    /\ pc \in {"fetch_framework", "search_web", "fetch_content", "qa_validate", "analyze"} =>
         state.research_findings = "" /\ "findings_qa" \notin DOMAIN state
    /\ BeforeSaving => IsNone(state.output_path)
    /\ pc = "fetch_framework" => IsNone(state.error_message)
    /\ (pc = "search_web" /\ state.status # "framework_error") => IsNone(state.error_message)

\* C21: every run starts from a state that holds its own query and default
\* values only, also the second run on the same ResearchAgent; nothing the
\* run before left in its final state (sources, rejected sources, report
\* lines, findings, error message, output path) shows in a state of the
\* next run before that run's own stage writes it.
C21_RunsStartFresh == [][C21_FreshStart]_vars /\ []C21_NothingCarried

\* The second run on the agent, two sources fetched and the filter not yet
\* run: no rejected source, no report line, no error message
C21_Witness ==
  /\ SecondRun
  /\ pc = "qa_validate"
  /\ Len(state.sources_with_content) = 2
  /\ DOMAIN state \cap {"rejected_sources", "qa_validation_details"} = {}
  /\ IsNone(state.error_message)

-----------------------------------------------------------------------------
(* Order of the stages, status and error_message, checked under Spec *)

\* The nodes in the order of the graph's edges, each named by the position
\* of a run that is about to execute it
StageOrder ==
  <<"fetch_framework", "search_web", "fetch_content", "qa_validate", "analyze", "save_output",
    "done">>
StageRank(p) == CHOOSE k \in 1..Len(StageOrder) : StageOrder[k] = p
InRun == pc \in {StageOrder[k] : k \in 1..Len(StageOrder)}
\* The status values each node writes, by the position the node leads to
StatusAt(p) ==
  CASE p = "fetch_framework" -> {"initializing"}
    [] p = "search_web" -> {"framework_loaded", "framework_not_found", "framework_error"}
    [] p = "fetch_content" -> {"search_complete", "search_error"}
    [] p = "qa_validate" -> {"content_fetched"}
    [] p = "analyze" -> {"qa_validated", "qa_validation_error"}
    [] p = "save_output" -> {"analysis_complete", "analysis_error"}
    [] p = "done" -> {"complete", "error"}

C22_NextStage ==
  (InRun /\ pc' # pc) =>
    \/ pc' = "raised" /\ pc = "fetch_content" /\ state' = state
    \/ pc # "done" /\ pc' = StageOrder[StageRank(pc) + 1]
C22_StatusOfLastStage == InRun => state.status \in StatusAt(pc)

\* C22: in a run the six nodes execute in the order fetch_framework,
\* search_web, fetch_content, qa_validate, analyze, save_output, each at
\* most once and each after the one before it has returned; after a node the
\* status is one of that node's own values, never one of an earlier node.
C22_StagesInOrder == [][C22_NextStage]_vars /\ []C22_StatusOfLastStage

\* A run that went through all six nodes after its search stage had failed
C22_Witness ==
  /\ pc = "done"
  /\ state.status = "complete"
  /\ state.error_message = Some("'title'")
  /\ Len(files) = 2

ErrorStatuses ==
  {"framework_error", "search_error", "qa_validation_error", "analysis_error", "error"}

\* C23: whenever the status of a run is one of framework_error,
\* search_error, qa_validation_error, analysis_error or error, error_message
\* is not null.
C23_ErrorStatusHasMessage ==
  (InRun /\ state.status \in ErrorStatuses) => ~IsNone(state.error_message)

\* A step of a node changes error_message only when the node ends in one of
\* its error statuses
C24_OnlyFailingStageWrites ==
  (InRun /\ pc' # "raised" /\ state'.error_message # state.error_message) =>
    /\ state'.status \in ErrorStatuses
    /\ ~IsNone(state'.error_message)
C24_NullAtStart == pc = "fetch_framework" => IsNone(state.error_message)

\* C24: error_message is null when a run starts and changes only in a node
\* that fails; a node that returns without catching an exception leaves it
\* as it found it, so that a message set by a failing node is still there
\* after later nodes succeed.
C24_MessageOnlyFromFailingStage == []C24_NullAtStart /\ [][C24_OnlyFailingStageWrites]_vars

\* The message of the failed search stage, still there in a complete run
\* whose filter, synthesis and save succeeded
C24_Witness ==
  /\ pc = "done"
  /\ state.status = "complete"
  /\ state.error_message = Some("'title'")
  /\ "rejected_sources" \in DOMAIN state
  /\ state.research_findings = NoSourcesText

-----------------------------------------------------------------------------
(* The annotations of the filter, checked under Spec *)

FilterRan == AfterFilter /\ "rejected_sources" \in DOMAIN state
\* What the relevance filter returns for a source of this run
VerdictOn(source) == validate_source(_extract_keywords(state.research_query), Core(source))
Scored(source) ==
  /\ "relevance_score" \in DOMAIN source
  /\ "rejection_reason" \notin DOMAIN source
  /\ source.relevance_score = VerdictOn(source).score
Refused(source) ==
  /\ "rejection_reason" \in DOMAIN source
  /\ "relevance_score" \notin DOMAIN source
  /\ source.rejection_reason = Some(VerdictOn(source).reason)
Unjudged(source) == DOMAIN source \cap {"relevance_score", "rejection_reason"} = {}

\* C25 as stated: after qa_validate_node every source in sources carries a
\* relevance_score and every source in rejected_sources carries a
\* rejection_reason and no relevance_score.
C25_EverySourceScored ==
  AfterFilter =>
    /\ \A i \in 1..Len(Accepted) : "relevance_score" \in DOMAIN Accepted[i]
    /\ \A i \in 1..Len(Rejected) :
         /\ "rejection_reason" \in DOMAIN Rejected[i]
         /\ "relevance_score" \notin DOMAIN Rejected[i]

\* C25 amended: when the filter ran to its end (status qa_validated), every
\* source in sources carries the relevance_score the filter returned for it
\* and no rejection_reason, and every source in rejected_sources carries the
\* filter's rejection_reason and no relevance_score.  When the validator
\* raised, sources is the unfiltered list: the sources judged before the
\* raise carry their score or their reason, the source that raised and the
\* ones after it carry neither.
C25_ScoredWhenFilterRan ==
  /\ FilterRan =>
       /\ \A i \in 1..Len(Accepted) : Scored(Accepted[i])
       /\ \A i \in 1..Len(Rejected) : Refused(Rejected[i])
  /\ FilterSkipped =>
       \E k \in 1..Len(Accepted) :
         /\ \A i \in 1..(k - 1) : Scored(Accepted[i]) \/ Refused(Accepted[i])
         /\ \A i \in k..Len(Accepted) : Unjudged(Accepted[i])

\* The filter ran: one source kept with score 1.0, one rejected
C25_Witness ==
  /\ FilterRan
  /\ pc = "analyze"
  /\ Len(Accepted) = 1
  /\ Accepted[1].relevance_score = FracOne
  /\ Len(Rejected) = 1
  /\ Refused(Rejected[1])

-----------------------------------------------------------------------------
(* The report of validate_sources, checked under SpecSources *)

\* What validate_source returns for the i-th source of the call
VerdictOfInput(i) == validate_source(CallKeywords, call.sources[i])
InputsJudged(valid) ==
  SelectSeq([i \in 1..Len(call.sources) |-> i], LAMBDA i : VerdictOfInput(i).is_valid = valid)
\* The input sources that were judged valid (or not), in the order of the input
InputsKept(valid) ==
  [j \in 1..Len(InputsJudged(valid)) |-> Core(call.sources[InputsJudged(valid)[j]])]

\* C26: validate_sources returns one report line per input source; the i-th
\* line is numbered i, names the title of the i-th source and has the
\* success prefix exactly when that source was accepted; the accepted and
\* the rejected list each hold their sources in the order of the input.
C26_OneLinePerSourceInOrder ==
  ReturnedFrom("validate_sources") =>
    /\ Len(call.ret.reasons) = Len(call.sources)
    /\ \A i \in 1..Len(call.sources) :
         /\ call.ret.reasons[i].number = i
         /\ call.ret.reasons[i].title = dict_get(call.sources[i], "title", Some("Unknown"))
         /\ call.ret.reasons[i].accepted = VerdictOfInput(i).is_valid
         /\ call.ret.reasons[i].reason = VerdictOfInput(i).reason
    /\ CoreSeq(call.ret.valid_sources) = InputsKept(TRUE)
    /\ CoreSeq(call.ret.rejected_sources) = InputsKept(FALSE)

\* Two different sources, both accepted, after a call in which the first
\* line is the first source's
C26_Witness ==
  /\ ReturnedFrom("validate_sources")
  /\ Len(call.sources) = 2
  /\ call.sources[1] # call.sources[2]
  /\ Len(call.ret.valid_sources) = 2
  /\ call.ret.reasons[1].number = 1
  /\ call.ret.reasons[2].accepted

-----------------------------------------------------------------------------
(* The hard reject of validate_source, checked under SpecSources *)

\* The lower-cased url that validate_source parses
LowerUrlOf(source) == str_lower(Val(dict_get(source, "url", Some(""))))
\* The source's domain holds an entry of the blacklist, or its url is a
\* reddit.com/r/... page
OnFixedBlacklist(source) ==
  \/ \E i \in 1..Len(bad_patterns) : str_in(bad_patterns[i], DomainOf(source))
  \/ str_in("reddit.com/r/", LowerUrlOf(source))

\* C27: validate_source rejects with score 0.0 every source whose url yields
\* an empty domain and every source that matches an entry of the blacklist,
\* a reddit.com/r/... page included, whatever keywords its title and summary
\* hold.
C27_HardRejectCoversBlacklist ==
  (/\ ReturnedFrom("validate_source")
   /\ (DomainOf(call.source) = "" \/ OnFixedBlacklist(call.source)))
  => /\ ~call.ret.is_valid
     /\ call.ret.score = FracZero

-----------------------------------------------------------------------------
(* The length of the fetched content: fetch_url_content and
   fetch_content_node called on their own *)

\* The cleaned text of a page: none (the request failed), empty, short, as
\* long as the default cap, and one character longer
FetchedPages ==
  {None, Some(""), Some("Full text of the page."),
   Some(Rep("x", MAX_CONTENT_LENGTH)), Some(Rep("x", MAX_CONTENT_LENGTH + 1))}
CapInputs == {0, 10, MAX_CONTENT_LENGTH}
NodePages == {None, Some("Full text of the page."), Some(Rep("x", MAX_CONTENT_LENGTH + 1))}

\* Candidates of the search stage: with a short summary, with a summary
\* longer than the cap, without a summary key, without a title
FetchCandidates ==
  {Source(Str("Market trends 2024"), Str("https://example.com/trends"), Str("A report")),
   Source(Str("AI archive"), Str("https://news.org/archive"),
          Str(Rep("s", MAX_CONTENT_LENGTH + 1))),
   [title |-> Str("AI weekly"), url |-> Str("https://news.org/weekly")],
   [url |-> Str("https://example.com/untitled"), summary |-> Str("trends")]}
FetchLists == UNION {[1..n -> FetchCandidates] : n \in 0..MaxCandidates}

InitFetch ==
  /\ PipelineIdle
  /\ call \in {[fn |-> "fetch_url_content", url |-> Str("https://example.com/trends"),
                page |-> p, max_length |-> m, done |-> FALSE] :
                 p \in FetchedPages, m \in CapInputs}
          \cup {[fn |-> "fetch_content_node", search_results |-> l, pages |-> pages,
                 done |-> FALSE] :
                 l \in FetchLists, pages \in UNION {[1..n -> NodePages] : n \in 0..MaxCandidates}}
  /\ call.fn = "fetch_content_node" => Len(call.pages) = Len(call.search_results)

\* research_tools.fetch_url_content(url, max_length): never raises
CallFetchUrlContent ==
  /\ call.fn = "fetch_url_content"
  /\ ~call.done
  /\ call' = [fn |-> call.fn, url |-> call.url, page |-> call.page,
              max_length |-> call.max_length, done |-> TRUE,
              ret |-> [raised |-> FALSE,
                       text |-> fetch_url_content(call.url, call.page, call.max_length)]]
  /\ UNCHANGED <<pc, state, llm_log, io_log, files, escaped>>

\* fetch_content_node on a state that holds the search results
CallFetchContentNode ==
  /\ call.fn = "fetch_content_node"
  /\ ~call.done
  /\ call' = [fn |-> call.fn, search_results |-> call.search_results, pages |-> call.pages,
              done |-> TRUE,
              ret |-> fetch_content_node([search_results |-> call.search_results], call.pages)]
  /\ UNCHANGED <<pc, state, llm_log, io_log, files, escaped>>

NextFetch == CallFetchUrlContent \/ CallFetchContentNode
SpecFetch == InitFetch /\ [][NextFetch]_vars

\* C28: the text fetch_url_content returns is at most max_length characters
\* long, and after fetch_content_node the content of every source is at
\* most MAX_CONTENT_LENGTH characters long, whether it is the extracted text
\* or the summary that stands in for it.
C28_ContentWithinCap ==
  /\ ReturnedFrom("fetch_url_content") =>
       (IsNone(call.ret.text) \/ Len(Val(call.ret.text)) <= call.max_length)
  /\ ReturnedFrom("fetch_content_node") =>
       \A i \in 1..Len(call.ret.patch.sources_with_content) :
         LET content == call.ret.patch.sources_with_content[i].content
         IN  IsNone(content) \/ Len(Val(content)) <= MAX_CONTENT_LENGTH

-----------------------------------------------------------------------------
(* Rejected sources at the end of the run, checked under Spec *)

Annotated(sources) == {i \in 1..Len(sources) : "rejection_reason" \in DOMAIN sources[i]}

\* C29: at the end of every run no source in sources carries a
\* rejection_reason, and none is among the sources of the written record,
\* also when the validator raised part-way through the list.
C29_NoRejectedSourceKept ==
  AfterSaving =>
    /\ Annotated(Accepted) = {}
    /\ files # <<>> => Annotated(files[1].json.sources) = {}

-----------------------------------------------------------------------------
(* The status in the structured record, checked under Spec *)

\* The status member of the written record, as json.load reads it
StatusOnRecord == LoadString(files[1].text.status)
Saves == pc = "save_output" /\ pc' = "done" /\ Len(files') > 0

\* C30: the status written into the structured record is the status the
\* state held when save_output_node started, the one analyze_node left
\* (analysis_complete or analysis_error); it is never complete or error,
\* so after a successful run it differs from the status of the final state.
C30_StatusAtStartOfSave ==
  Saves => /\ LoadString(files'[1].text.status) = state.status
           /\ files'[1].json.status = state.status
C30_NeverTheFinalStatus ==
  RecordWritten =>
    /\ StatusOnRecord \in {"analysis_complete", "analysis_error"}
    /\ StatusOnRecord \notin {"complete", "error"}
    /\ state.status \in {"complete", "error"}
    /\ state.status = "complete" => StatusOnRecord # state.status
C30_RecordKeepsEarlierStatus ==
  [][C30_StatusAtStartOfSave]_vars /\ []C30_NeverTheFinalStatus

\* A run that ended complete with both files written, the record saying
\* analysis_complete
C30_Witness ==
  /\ RecordWritten
  /\ BothWritten
  /\ state.status = "complete"
  /\ StatusOnRecord = "analysis_complete"

====
